---- MODULE Spec2Model ----
(***************************************************************************)
(* CodeCity interpreter: the primitive value domain (primitives.go) and    *)
(* the Object built-ins (builtin_object.go).                               *)
(*                                                                         *)
(* A JS string is a sequence of Unicode code points (Go: a UTF-8 string).  *)
(* A JS number is a float64, held as a sign, a decimal mantissa and a      *)
(* decimal exponent (the shortest decimal that denotes the float64), or    *)
(* one of NaN, +Inf, -Inf.                                                 *)
(***************************************************************************)
EXTENDS Integers, Sequences, FiniteSets

VARIABLES heap, ret, calls, input, world

vars == <<heap, ret, calls, input, world>>

(***************************************************************************)
(* Bounds of the model.                                                    *)
(***************************************************************************)
MaxStrLen == 3
MaxMant == 12
MaxExp == 7
MaxCalls == 2
MaxObjects == 27
MaxResizes == 3
TickMs == 100

\* F applied to the value of v, with v evaluated once
Let(v, F(_)) == CHOOSE r \in {F(x) : x \in {v}} : TRUE

(***************************************************************************)
(* Text.  Literal strings of the source, as code points.                   *)
(***************************************************************************)
\* "undefined"
TxtUndefined == <<117, 110, 100, 101, 102, 105, 110, 101, 100>>
\* "null"
TxtNull == <<110, 117, 108, 108>>
\* "true"
TxtTrue == <<116, 114, 117, 101>>
\* "false"
TxtFalse == <<102, 97, 108, 115, 101>>
\* "Infinity"
TxtInfinity == <<73, 110, 102, 105, 110, 105, 116, 121>>
\* "-Infinity"
TxtNegInfinity == <<45, 73, 110, 102, 105, 110, 105, 116, 121>>
\* "NaN"
TxtNaN == <<78, 97, 78>>
\* "length"
TxtLength == <<108, 101, 110, 103, 116, 104>>
\* "infinity"
TxtLowerInfinity == <<105, 110, 102, 105, 110, 105, 116, 121>>
\* "nan"
TxtLowerNan == <<110, 97, 110>>
\* "Cannot get prototype of "
TxtCannotGetPrototypeOf ==
    <<67, 97, 110, 110, 111, 116, 32, 103, 101, 116, 32, 112, 114, 111, 116,
      111, 116, 121, 112, 101, 32, 111, 102, 32>>
\* "Cannot get property descriptor from "
TxtCannotGetPropertyDescriptorFrom ==
    <<67, 97, 110, 110, 111, 116, 32, 103, 101, 116, 32, 112, 114, 111, 112,
      101, 114, 116, 121, 32, 100, 101, 115, 99, 114, 105, 112, 116, 111, 114,
      32, 102, 114, 111, 109, 32>>
\* "Cannot get propery names of "  (sic)
TxtCannotGetProperyNamesOf ==
    <<67, 97, 110, 110, 111, 116, 32, 103, 101, 116, 32, 112, 114, 111, 112,
      101, 114, 121, 32, 110, 97, 109, 101, 115, 32, 111, 102, 32>>
\* "Cannot define property on "
TxtCannotDefinePropertyOn ==
    <<67, 97, 110, 110, 111, 116, 32, 100, 101, 102, 105, 110, 101, 32, 112,
      114, 111, 112, 101, 114, 116, 121, 32, 111, 110, 32>>
\* "Object prototype may only be an Object or null"
TxtProtoMayOnlyBe ==
    <<79, 98, 106, 101, 99, 116, 32, 112, 114, 111, 116, 111, 116, 121, 112,
      101, 32, 109, 97, 121, 32, 111, 110, 108, 121, 32, 98, 101, 32, 97, 110,
      32, 79, 98, 106, 101, 99, 116, 32, 111, 114, 32, 110, 117, 108, 108>>
\* "Object.property.toString called with this == nil??"  (sic)
TxtToStringCalledWithNil ==
    <<79, 98, 106, 101, 99, 116, 46, 112, 114, 111, 112, 101, 114, 116, 121,
      46, 116, 111, 83, 116, 114, 105, 110, 103, 32, 99, 97, 108, 108, 101,
      100, 32, 119, 105, 116, 104, 32, 116, 104, 105, 115, 32, 61, 61, 32,
      110, 105, 108, 63, 63>>
\* "Property descriptor must be an object"
TxtDescriptorMustBeObject ==
    <<80, 114, 111, 112, 101, 114, 116, 121, 32, 100, 101, 115, 99, 114, 105,
      112, 116, 111, 114, 32, 109, 117, 115, 116, 32, 98, 101, 32, 97, 110,
      32, 111, 98, 106, 101, 99, 116>>
\* "Cannot delete property 'length' of "
TxtCannotDeleteLengthOf ==
    <<67, 97, 110, 110, 111, 116, 32, 100, 101, 108, 101, 116, 101, 32, 112,
      114, 111, 112, 101, 114, 116, 121, 32, 39, 108, 101, 110, 103, 116, 104,
      39, 32, 111, 102, 32>>
\* "hello", "h\u00e9llo" (h, U+00E9, l, l, o), U+10437, "abc", " 0x1A ", "42"
TxtHello == <<104, 101, 108, 108, 111>>
TxtHelloAcute == <<104, 233, 108, 108, 111>>
TxtAstral == <<66615>>
TxtAbc == <<97, 98, 99>>
TxtHex1A == <<32, 48, 120, 49, 65, 32>>
TxtFortyTwo == <<52, 50>>
\* the property names "a", "b", "x"
KeyA == <<97>>
KeyB == <<98>>
KeyX == <<120>>
KeyZero == <<48>>
\* the descriptor field names
TxtValue == <<118, 97, 108, 117, 101>>
TxtWritable == <<119, 114, 105, 116, 97, 98, 108, 101>>
TxtGet == <<103, 101, 116>>
TxtSet == <<115, 101, 116>>
TxtEnumerable == <<101, 110, 117, 109, 101, 114, 97, 98, 108, 101>>
TxtConfigurable == <<99, 111, 110, 102, 105, 103, 117, 114, 97, 98, 108, 101>>

(***************************************************************************)
(* float64 values.  A finite value is (-1)^neg * d * 10^e, where d is a    *)
(* sequence of decimal digits without leading or trailing zeros (for zero  *)
(* d is empty and e is 0).  The record of a float64 is the shortest        *)
(* decimal that rounds to it, the digits strconv.FormatFloat(f, 'g', -1,   *)
(* 64) shows.                                                              *)
(***************************************************************************)
NaN == [k |-> "nan", neg |-> FALSE, d |-> <<>>, e |-> 0]
Inf(neg) == [k |-> "inf", neg |-> neg, d |-> <<>>, e |-> 0]
Zero(neg) == [k |-> "fin", neg |-> neg, d |-> <<>>, e |-> 0]

RECURSIVE DigitsOf(_)
\* the decimal digits of a natural number, most significant first
DigitsOf(n) == IF n < 10 THEN <<n>> ELSE Append(DigitsOf(n \div 10), n % 10)

DigitChars(ds) == [i \in 1..Len(ds) |-> 48 + ds[i]]

RECURSIVE Pow(_, _)
Pow(b, n) == IF n = 0 THEN 1 ELSE b * Pow(b, n - 1)

\* the finite value (-1)^neg * ds * 10^e for a sequence ds of decimal digits
NormalizeDigits(neg, ds0, e) ==
    Let(ds0, LAMBDA ds :
        LET nz == {i \in 1..Len(ds) : ds[i] # 0}
            first == CHOOSE i \in nz : \A j \in nz : i <= j
            last == CHOOSE i \in nz : \A j \in (i + 1)..Len(ds) : ds[j] = 0
        IN IF nz = {} THEN Zero(neg)
           ELSE [k |-> "fin", neg |-> neg, d |-> SubSeq(ds, first, last),
                 e |-> e + Len(ds) - last])

\* the finite value (-1)^neg * m * 10^e
Normalize(neg, m, e) == NormalizeDigits(neg, DigitsOf(m), e)

Fin(n) == IF n < 0 THEN Normalize(TRUE, -n, 0) ELSE Normalize(FALSE, n, 0)

IsZeroFloat(f) == f.k = "fin" /\ f.d = <<>>

(***************************************************************************)
(* Natural numbers of any size, for the exact rounding of strconv: the     *)
(* sequence of the limbs to the base 10^4, the least significant first,    *)
(* the last one not zero; <<>> is 0.  The operators split the limbs in     *)
(* halves, which keeps the evaluation shallow.                             *)
(***************************************************************************)
Limb == Pow(10, 4)

BigFromInt(n) ==
    IF n = 0 THEN <<>>
    ELSE IF n < Limb THEN <<n>>
    ELSE IF n < Limb * Limb THEN <<n % Limb, n \div Limb>>
    ELSE <<n % Limb, (n \div Limb) % Limb, n \div (Limb * Limb)>>

RECURSIVE BigTop(_, _, _)
\* the highest index in lo..hi of a limb of a that is not zero, or 0
BigTop(a, lo, hi) ==
    IF lo > hi THEN 0
    ELSE IF lo = hi THEN (IF a[lo] # 0 THEN lo ELSE 0)
    ELSE Let((lo + hi) \div 2, LAMBDA mid :
         Let(BigTop(a, mid + 1, hi), LAMBDA h :
             IF h # 0 THEN h ELSE BigTop(a, lo, mid)))

RECURSIVE BigCmpRange(_, _, _, _)
BigCmpRange(a, b, lo, hi) ==
    IF lo = hi THEN (IF a[lo] < b[lo] THEN -1 ELSE IF a[lo] > b[lo] THEN 1 ELSE 0)
    ELSE Let((lo + hi) \div 2, LAMBDA mid :
         Let(BigCmpRange(a, b, mid + 1, hi), LAMBDA h :
             IF h # 0 THEN h ELSE BigCmpRange(a, b, lo, mid)))

\* -1, 0 or 1 as a is less than, equal to or greater than b
BigCmp(a0, b0) ==
    Let(<<a0, b0>>, LAMBDA p :
        IF Len(p[1]) # Len(p[2]) THEN (IF Len(p[1]) < Len(p[2]) THEN -1 ELSE 1)
        ELSE IF p[1] = p[2] THEN 0
        ELSE BigCmpRange(p[1], p[2], 1, Len(p[1])))

RECURSIVE BigMulRange(_, _, _, _, _)
\* the limbs lo..hi of a times s, plus the carry c: [r, c]
BigMulRange(a, s, lo, hi, c) ==
    IF lo = hi
    THEN Let(a[lo] * s + c, LAMBDA x : [r |-> <<x % Limb>>, c |-> x \div Limb])
    ELSE Let((lo + hi) \div 2, LAMBDA mid :
         Let(BigMulRange(a, s, lo, mid, c), LAMBDA low :
         Let(BigMulRange(a, s, mid + 1, hi, low.c), LAMBDA high :
             [r |-> low.r \o high.r, c |-> high.c])))

\* a times s, for 0 <= s <= 200000
BigMul(a0, s) ==
    Let(a0, LAMBDA a :
        IF a = <<>> \/ s = 0 THEN <<>>
        ELSE Let(BigMulRange(a, s, 1, Len(a), 0), LAMBDA p : p.r \o BigFromInt(p.c)))

RECURSIVE BigAddRange(_, _, _, _, _)
BigAddRange(a, b, lo, hi, c) ==
    IF lo = hi
    THEN Let((IF lo <= Len(a) THEN a[lo] ELSE 0) + (IF lo <= Len(b) THEN b[lo] ELSE 0) + c,
             LAMBDA x : [r |-> <<x % Limb>>, c |-> x \div Limb])
    ELSE Let((lo + hi) \div 2, LAMBDA mid :
         Let(BigAddRange(a, b, lo, mid, c), LAMBDA low :
         Let(BigAddRange(a, b, mid + 1, hi, low.c), LAMBDA high :
             [r |-> low.r \o high.r, c |-> high.c])))

BigAdd(a0, b0) ==
    Let(<<a0, b0>>, LAMBDA p :
        IF p[1] = <<>> THEN p[2]
        ELSE IF p[2] = <<>> THEN p[1]
        ELSE Let(BigAddRange(p[1], p[2], 1,
                             IF Len(p[1]) > Len(p[2]) THEN Len(p[1]) ELSE Len(p[2]), 0),
                 LAMBDA s : s.r \o BigFromInt(s.c)))

RECURSIVE BigSubRange(_, _, _, _, _)
BigSubRange(a, b, lo, hi, c) ==
    IF lo = hi
    THEN Let(a[lo] - (IF lo <= Len(b) THEN b[lo] ELSE 0) - c,
             LAMBDA x : [r |-> <<IF x < 0 THEN x + Limb ELSE x>>,
                         c |-> IF x < 0 THEN 1 ELSE 0])
    ELSE Let((lo + hi) \div 2, LAMBDA mid :
         Let(BigSubRange(a, b, lo, mid, c), LAMBDA low :
         Let(BigSubRange(a, b, mid + 1, hi, low.c), LAMBDA high :
             [r |-> low.r \o high.r, c |-> high.c])))

\* a minus b, for a >= b
BigSub(a0, b0) ==
    Let(<<a0, b0>>, LAMBDA p :
        IF p[2] = <<>> THEN p[1]
        ELSE Let(BigSubRange(p[1], p[2], 1, Len(p[1]), 0).r, LAMBDA r :
                 SubSeq(r, 1, BigTop(r, 1, Len(r)))))

RECURSIVE BigMulPow(_, _, _, _)
\* a times base^n, by steps of at most base^step
BigMulPow(a, base, step, n) ==
    IF n <= step THEN BigMul(a, Pow(base, n))
    ELSE Let(n \div 2, LAMBDA half :
         Let(BigMulPow(a, base, step, half), LAMBDA h :
             BigMulPow(h, base, step, n - half)))

BigMulPow2(a, n) == BigMulPow(a, 2, 17, n)

BigMulPow5(a, n) == BigMulPow(a, 5, 7, n)

BigMulPow10(a0, n) ==
    Let(BigMul(a0, Pow(10, n % 4)), LAMBDA a :
        IF a = <<>> THEN <<>> ELSE [i \in 1..(n \div 4) |-> 0] \o a)

\* the number with the decimal digits ds, the first of which is not 0
BigFromDigits(ds0) ==
    Let(ds0, LAMBDA ds :
        LET n == Len(ds)
            dig(k) == IF k >= 1 THEN ds[k] ELSE 0
        IN [i \in 1..((n + 3) \div 4) |->
               dig(n - 4 * (i - 1)) + 10 * dig(n - 4 * (i - 1) - 1)
               + 100 * dig(n - 4 * (i - 1) - 2) + 1000 * dig(n - 4 * (i - 1) - 3)])

RECURSIVE BigFromHexRange(_, _, _)
BigFromHexRange(hs, lo, hi) ==
    IF hi - lo < 6
    THEN BigFromInt(LET v[i \in (lo - 1)..hi] ==
                            IF i = lo - 1 THEN 0 ELSE v[i - 1] * 16 + hs[i]
                    IN v[hi])
    ELSE Let((lo + hi) \div 2, LAMBDA mid :
             BigAdd(BigMulPow2(BigFromHexRange(hs, lo, mid), 4 * (hi - mid)),
                    BigFromHexRange(hs, mid + 1, hi)))

\* the number with the hexadecimal digits hs
BigFromHex(hs0) ==
    Let(hs0, LAMBDA hs : IF hs = <<>> THEN <<>> ELSE
        Let(BigFromHexRange(hs, 1, Len(hs)), LAMBDA r : SubSeq(r, 1, BigTop(r, 1, Len(r)))))

\* the decimal digits of a, the most significant first
BigToDigits(a0) ==
    Let(a0, LAMBDA a :
        LET n == Len(a)
            top == a[n]
            t == IF top >= 1000 THEN 4 ELSE IF top >= 100 THEN 3 ELSE IF top >= 10 THEN 2 ELSE 1
        IN IF a = <<>> THEN <<>>
           ELSE [k \in 1..(4 * (n - 1) + t) |->
                   LET j == k + (4 - t) - 1
                   IN (a[n - j \div 4] \div Pow(10, 3 - (j % 4))) % 10])

(***************************************************************************)
(* The values.  Nil is Go's nil interface value ("no prototype").          *)
(***************************************************************************)
Undefined == [t |-> "undefined"]
Null == [t |-> "null"]
Boolean(b) == [t |-> "boolean", b |-> b]
Number(f) == [t |-> "number", n |-> f]
String(s) == [t |-> "string", s |-> s]
Object(i) == [t |-> "object", id |-> i]
Nil == [t |-> "nil"]

IsObject(v) == v.t = "object"

\* ErrorMsg{Name, Message}
ErrorMsg(name, message) == [t |-> "error", name |-> name, message |-> message]

(***************************************************************************)
(* strconv.FormatFloat(f, 'g', -1, 64), which fmt.Sprintf("%g", n) yields. *)
(***************************************************************************)
\* %e form: d[.ddd]e(+|-)dd, at least two exponent digits
FmtE(sign, digs, exp) ==
    LET nd == Len(digs)
        first == IF nd = 0 THEN <<48>> ELSE <<48 + digs[1]>>
        frac == IF nd > 1 THEN <<46>> \o DigitChars(SubSeq(digs, 2, nd)) ELSE <<>>
        mag == IF exp < 0 THEN -exp ELSE exp
        expDigits == IF mag < 10 THEN <<48>> \o DigitChars(DigitsOf(mag))
                     ELSE DigitChars(DigitsOf(mag))
    IN sign \o first \o frac \o <<101>> \o (IF exp < 0 THEN <<45>> ELSE <<43>>) \o expDigits

\* %f form with prec digits after the point
FmtF(sign, digs, dp, prec) ==
    LET nd == Len(digs)
        int == IF dp > 0
               THEN [i \in 1..dp |-> IF i <= nd THEN 48 + digs[i] ELSE 48]
               ELSE <<48>>
        frac == IF prec > 0
                THEN <<46>> \o [i \in 1..prec |->
                                  IF dp + i >= 1 /\ dp + i <= nd THEN 48 + digs[dp + i] ELSE 48]
                ELSE <<>>
    IN sign \o int \o frac

FormatG(f) ==
    IF f.k = "nan" THEN TxtNaN
    ELSE IF f.k = "inf" THEN (IF f.neg THEN <<45>> ELSE <<43>>) \o <<73, 110, 102>>
    ELSE LET digs == f.d
             nd == Len(digs)
             dp == IF nd = 0 THEN 0 ELSE nd + f.e
             exp == dp - 1
             sign == IF f.neg THEN <<45>> ELSE <<>>
         IN IF exp < -4 \/ exp >= 6
            THEN FmtE(sign, digs, exp)
            ELSE FmtF(sign, digs, dp, IF nd - dp > 0 THEN nd - dp ELSE 0)

(***************************************************************************)
(* Boolean (primitives.go).                                                *)
(***************************************************************************)
BooleanToBoolean(b) == Boolean(b)

BooleanToNumber(b) == IF b THEN Number(Fin(1)) ELSE Number(Fin(0))

BooleanToString(b) == IF b THEN String(TxtTrue) ELSE String(TxtFalse)

BooleanToPrimitive(b) == Boolean(b)

(***************************************************************************)
(* Number.                                                                 *)
(***************************************************************************)
\* a ToBoolean of Numbers that tests for zero alone
NumberToBooleanZeroOnly(n) == Boolean(~IsZeroFloat(n))

NumberToBoolean(n) == Boolean(~(IsZeroFloat(n) \/ n.k = "nan"))

NumberToNumber(n) == Number(n)

NumberToString(n) ==
    IF n = Inf(FALSE) THEN String(TxtInfinity)
    ELSE IF n = Inf(TRUE) THEN String(TxtNegInfinity)
    ELSE String(FormatG(n))

NumberToPrimitive(n) == Number(n)

(***************************************************************************)
(* Null and Undefined.                                                     *)
(***************************************************************************)
\* a Proto of Null that answers Null itself
NullProtoIsNull == Null

NullProto == Nil

NullToBoolean == Boolean(FALSE)

NullToNumber == Number(Fin(0))

NullToString == String(TxtNull)

NullToPrimitive == Null

UndefinedProto == Nil

UndefinedToBoolean == Boolean(FALSE)

UndefinedToNumber == Number(NaN)

UndefinedToString == String(TxtUndefined)

UndefinedToPrimitive == Undefined

(***************************************************************************)
(* Library functions String.ToNumber and String.GetProperty call.          *)
(***************************************************************************)
\* unicode.IsSpace, the predicate of strings.TrimSpace
IsSpace(c) ==
    \/ c \in 9..13
    \/ c \in {32, 133, 160, 5760, 8232, 8233, 8239, 8287, 12288}
    \/ c \in 8192..8202

RECURSIVE TrimLeft(_)
TrimLeft(s) == IF s # <<>> /\ IsSpace(Head(s)) THEN TrimLeft(Tail(s)) ELSE s

RECURSIVE TrimRight(_)
TrimRight(s) ==
    IF s # <<>> /\ IsSpace(s[Len(s)]) THEN TrimRight(SubSeq(s, 1, Len(s) - 1)) ELSE s

TrimSpace(s) == TrimRight(TrimLeft(s))

\* A string is the sequence of the runes of a Go string: a code point for
\* each UTF-8 sequence, and 1114112 + b for each byte b that is part of none.
\* a byte above 127 outside any UTF-8 sequence
LoneByte(v) == IF v < 128 THEN v ELSE 1114112 + v

\* the number of bytes a rune of a string takes
UTF8Len(c) ==
    IF c < 128 \/ c > 1114111 THEN 1 ELSE IF c < 2048 THEN 2 ELSE IF c < 65536 THEN 3 ELSE 4

\* utf8.EncodeRune, and the byte itself for a lone byte
EncodeRune(c) ==
    IF c > 1114111 THEN <<c - 1114112>>
    ELSE IF c < 128 THEN <<c>>
    ELSE IF c < 2048 THEN <<192 + c \div 64, 128 + (c % 64)>>
    ELSE IF c < 65536 THEN <<224 + c \div 4096, 128 + ((c \div 64) % 64), 128 + (c % 64)>>
    ELSE <<240 + c \div 262144, 128 + ((c \div 4096) % 64), 128 + ((c \div 64) % 64),
           128 + (c % 64)>>

RECURSIVE Bytes(_)
\* []byte(s)
Bytes(s) == IF s = <<>> THEN <<>> ELSE EncodeRune(Head(s)) \o Bytes(Tail(s))

\* utf8.DecodeRune on non-empty bytes: [r, size]; an invalid or short
\* encoding gives the first byte alone
DecodeRune(b) ==
    LET n == Len(b)
        cont(i) == i <= n /\ b[i] \in 128..191
        lone == [r |-> LoneByte(b[1]), size |-> 1]
    IN IF b[1] < 128 THEN [r |-> b[1], size |-> 1]
       ELSE IF b[1] \in 194..223
       THEN IF cont(2) THEN [r |-> (b[1] - 192) * 64 + (b[2] - 128), size |-> 2] ELSE lone
       ELSE IF b[1] \in 224..239
       THEN IF /\ cont(2)
               /\ cont(3)
               /\ (b[1] = 224 => b[2] >= 160)
               /\ (b[1] = 237 => b[2] <= 159)
            THEN [r |-> (b[1] - 224) * 4096 + (b[2] - 128) * 64 + (b[3] - 128), size |-> 3]
            ELSE lone
       ELSE IF b[1] \in 240..244
       THEN IF /\ cont(2)
               /\ cont(3)
               /\ cont(4)
               /\ (b[1] = 240 => b[2] >= 144)
               /\ (b[1] = 244 => b[2] <= 143)
            THEN [r |-> (b[1] - 240) * 262144 + (b[2] - 128) * 4096 + (b[3] - 128) * 64
                        + (b[4] - 128),
                  size |-> 4]
            ELSE lone
       ELSE lone

RECURSIVE FromBytes(_)
\* string(b): the runes of a byte sequence
FromBytes(b) ==
    IF b = <<>> THEN <<>>
    ELSE <<DecodeRune(b).r>> \o FromBytes(SubSeq(b, DecodeRune(b).size + 1, Len(b)))

RECURSIVE ByteLen(_)
\* len(string(s))
ByteLen(s) == IF s = <<>> THEN 0 ELSE UTF8Len(Head(s)) + ByteLen(Tail(s))

\* the number of UTF-16 code units utf16.Encode produces for one rune
UTF16Units(c) == IF c >= 65536 /\ c <= 1114111 THEN 2 ELSE 1

RECURSIVE UTF16Len(_)
\* len(utf16.Encode([]rune(string(s))))
UTF16Len(s) == IF s = <<>> THEN 0 ELSE UTF16Units(Head(s)) + UTF16Len(Tail(s))

Lower(c) == IF c \in 65..90 THEN c + 32 ELSE c

IsDigitCh(c) == c \in 48..57

IsHexCh(c) == IsDigitCh(c) \/ Lower(c) \in 97..102

HexVal(c) == IF IsDigitCh(c) THEN c - 48 ELSE Lower(c) - 87

RECURSIVE StripZeros(_)
StripZeros(s) == IF s # <<>> /\ Head(s) = 48 THEN StripZeros(Tail(s)) ELSE s

RECURSIVE HexValue(_)
HexValue(s) == IF s = <<>> THEN 0 ELSE HexValue(SubSeq(s, 1, Len(s) - 1)) * 16 + HexVal(s[Len(s)])

\* the least element of a non-empty set of integers
Least(S) == CHOOSE i \in S : \A j \in S : i <= j

\* strconv.ParseInt(s, 16, 64) for non-empty s: [err, neg, h]: the sign and
\* the hexadecimal digits of the int64, without leading zeros; on a range
\* error the int64 is the largest or the smallest, as the sign tells.
\* ParseUint reads the characters in order: it ends with a syntax error at
\* the first one that is no digit, and with a range error at the digit with
\* which the uint64 overflows, the 17th significant one.
ParseInt16(s) ==
    LET neg == s[1] = 45
        body == IF s[1] \in {43, 45} THEN Tail(s) ELSE s
        bad == Least({i \in 1..Len(body) : ~IsHexCh(body[i])} \cup {Len(body) + 1})
        h == StripZeros(SubSeq(body, 1, bad - 1))
        beyond == /\ Len(h) = 16
                  /\ HexVal(h[1]) >= 8
                  /\ ~(neg /\ HexVal(h[1]) = 8 /\ \A i \in 2..16 : h[i] = 48)
    IN IF body = <<>> THEN [err |-> "syntax", neg |-> FALSE, h |-> <<>>]
       ELSE IF Len(h) > 16 THEN [err |-> "range", neg |-> neg, h |-> <<>>]
       ELSE IF bad <= Len(body) THEN [err |-> "syntax", neg |-> FALSE, h |-> <<>>]
       ELSE IF beyond THEN [err |-> "range", neg |-> neg, h |-> <<>>]
       ELSE [err |-> "none", neg |-> neg, h |-> [i \in 1..Len(h) |-> HexVal(h[i])]]

RECURSIVE CommonPrefixLenIgnoreCase(_, _)
CommonPrefixLenIgnoreCase(s, prefix) ==
    IF s = <<>> \/ prefix = <<>> \/ Lower(Head(s)) # Head(prefix) THEN 0
    ELSE 1 + CommonPrefixLenIgnoreCase(Tail(s), Tail(prefix))

\* strconv's special: "inf", "infinity" (signed or not) and "nan", any case
Special(s) ==
    LET signed == s # <<>> /\ s[1] \in {43, 45}
        body == IF signed THEN Tail(s) ELSE s
        nsign == IF signed THEN 1 ELSE 0
        n0 == CommonPrefixLenIgnoreCase(body, TxtLowerInfinity)
        n == IF 3 < n0 /\ n0 < 8 THEN 3 ELSE n0
    IN IF s = <<>> THEN [ok |-> FALSE, f |-> NaN, n |-> 0]
       ELSE IF (signed \/ Lower(s[1]) = 105) /\ n \in {3, 8}
       THEN [ok |-> TRUE, f |-> Inf(signed /\ s[1] = 45), n |-> nsign + n]
       ELSE IF ~signed /\ Lower(s[1]) = 110 /\ CommonPrefixLenIgnoreCase(s, TxtLowerNan) = 3
       THEN [ok |-> TRUE, f |-> NaN, n |-> 3]
       ELSE [ok |-> FALSE, f |-> NaN, n |-> 0]

(***************************************************************************)
(* The float64 nearest to a number, and the shortest decimal that rounds   *)
(* to a float64 (strconv: atof.go and ftoa.go).  A float64 of a positive   *)
(* value is q * 2^b with 2^52 <= q < 2^53 and -1074 <= b <= 971, or with   *)
(* q < 2^52 and b = -1074 (denormal).                                      *)
(***************************************************************************)
MantBits == 52
MinExp2 == -1074
MaxExp2 == 971

RECURSIVE BigDivRange(_, _, _, _)
\* the decimal digits of the quotient of r by d at the powers hi down to lo
\* of ten, for r < d * 10^(hi + 1), and the remainder: [q, r]
BigDivRange(r, d, hi, lo) ==
    IF hi = lo
    THEN Let(BigMulPow10(d, lo), LAMBDA dj :
         Let(CHOOSE t \in 0..9 :
                 /\ BigCmp(BigMul(dj, t), r) <= 0
                 /\ t = 9 \/ BigCmp(BigMul(dj, t + 1), r) > 0,
             LAMBDA t : [q |-> <<t>>, r |-> BigSub(r, BigMul(dj, t))]))
    ELSE Let((hi + lo) \div 2, LAMBDA mid :
         Let(BigDivRange(r, d, hi, mid + 1), LAMBDA h :
         Let(BigDivRange(h.r, d, mid, lo), LAMBDA l :
             [q |-> h.q \o l.q, r |-> l.r])))

\* the quotient, as 16 decimal digits, and the remainder of r by d, for
\* r < d * 10^16: [q, r]
BigDiv(r0, d0) == Let(<<r0, d0>>, LAMBDA p : BigDivRange(p[1], p[2], 15, 0))

\* a lower bound of the binary logarithm of 10^x
Log2Pow10(x) ==
    IF x >= 0 THEN (x * 33219) \div 10000 ELSE -((-x * 33220 + 9999) \div 10000)

\* the float64 nearest to n / d (ties to the even q), for n > 0 and a lower
\* bound low of the binary logarithm of n / d that is at most 10 too small:
\* [k, q, b] with k "fin", "zero" (underflow) or "inf" (overflow)
RoundRatio(n0, d0, low) ==
    Let(IF low - MantBits < MinExp2 THEN MinExp2 ELSE low - MantBits, LAMBDA b0 :
    Let(IF b0 >= 0 THEN <<n0, BigMulPow2(d0, b0 + MantBits + 1)>>
        ELSE IF b0 + MantBits + 1 >= 0
        THEN <<BigMulPow2(n0, -b0), BigMulPow2(d0, MantBits + 1)>>
        ELSE <<BigMulPow2(n0, -b0 - MantBits - 1), d0>>, LAMBDA p :
    \* p[1] / p[2] = (n / d) / 2^(b0 + 53); t: the least with n / d < 2^(b0 + 53 + t)
    Let(CHOOSE t \in 0..12 :
            /\ BigCmp(p[1], BigMulPow2(p[2], t)) < 0
            /\ t = 0 \/ BigCmp(p[1], BigMulPow2(p[2], t - 1)) >= 0, LAMBDA t :
    Let(BigDiv(BigMulPow2(p[1], MantBits + 1), BigMulPow2(p[2], t)), LAMBDA qr :
    Let(BigFromDigits(NormalizeDigits(FALSE, qr.q, 0).d), LAMBDA qd :
    \* qd * 10^z is the quotient; the digits of a quotient below 10^16 end in
    \* zeros only when it does
    Let(LET z == NormalizeDigits(FALSE, qr.q, 0).e
            q == BigMulPow10(qd, z)
            c == BigCmp(BigMul(qr.r, 2), BigMulPow2(p[2], t))
            odd == q # <<>> /\ q[1] % 2 = 1
        IN IF c > 0 \/ (c = 0 /\ odd) THEN BigAdd(q, <<1>>) ELSE q, LAMBDA q :
    Let(BigMulPow2(<<1>>, MantBits + 1), LAMBDA top :
        IF q = <<>> THEN [k |-> "zero", q |-> <<>>, b |-> 0]
        ELSE IF q = top
        THEN (IF b0 + t + 1 > MaxExp2 THEN [k |-> "inf", q |-> <<>>, b |-> 0]
              ELSE [k |-> "fin", q |-> BigMulPow2(<<1>>, MantBits), b |-> b0 + t + 1])
        ELSE IF b0 + t > MaxExp2 THEN [k |-> "inf", q |-> <<>>, b |-> 0]
        ELSE [k |-> "fin", q |-> q, b |-> b0 + t])))))))

\* roundShortest: the digits of the shortest decimal between the bounds lo
\* and up of the float64 with the digits mid, all three of the same length;
\* the bounds themselves count when incl.  [d, drop]: the digits kept, and
\* the number of digits dropped after them
ShortestDigits(lo, mid, up, incl) ==
    LET n == Len(mid)
        dl == CHOOSE i \in 1..n : lo[i] # mid[i] /\ \A j \in 1..(i - 1) : lo[j] = mid[j]
        du == CHOOSE i \in 1..n : up[i] # mid[i] /\ \A j \in 1..(i - 1) : up[j] = mid[j]
        okdown(i) == i >= dl \/ (incl /\ \A j \in (i + 1)..n : lo[j] = 0)
        next(i) == /\ up[du] = mid[du] + 1
                   /\ \A j \in (du + 1)..i : mid[j] = 9 /\ up[j] = 0
        okup(i) == /\ i >= du
                   /\ incl \/ ~next(i) \/ \E j \in (i + 1)..n : up[j] # 0
        ok(i) == okdown(i) \/ okup(i)
    IN Let(CHOOSE i \in 1..n : ok(i) /\ \A j \in 1..(i - 1) : ~ok(j), LAMBDA i :
       LET half == /\ mid[i + 1] = 5
                   /\ \A j \in (i + 2)..n : mid[j] = 0
           roundUp == IF okdown(i) /\ okup(i)
                      THEN IF i = n THEN FALSE
                           ELSE IF half THEN mid[i] % 2 = 1
                           ELSE mid[i + 1] >= 5
                      ELSE okup(i)
           not9 == {j \in 1..i : mid[j] # 9}
           p == CHOOSE j \in not9 : \A l \in not9 : l <= j
       IN [drop |-> n - i,
           d |-> IF ~roundUp THEN SubSeq(mid, 1, i)
                 ELSE IF not9 = {} THEN <<1>> \o [j \in 1..i |-> 0]
                 ELSE [j \in 1..i |-> IF j < p THEN mid[j]
                                      ELSE IF j = p THEN mid[p] + 1 ELSE 0]])

\* the float64 q * 2^b of sign neg, as its shortest decimal
Shortest(neg, q, b) ==
    Let(<<BigSub(BigMul(q, 4),
                 IF q = BigMulPow2(<<1>>, MantBits) /\ b > MinExp2 THEN <<1>> ELSE <<2>>),
          BigMul(q, 4),
          BigAdd(BigMul(q, 4), <<2>>)>>, LAMBDA x :
    Let([i \in 1..3 |-> BigToDigits(IF b - 2 >= 0 THEN BigMulPow2(x[i], b - 2)
                                    ELSE BigMulPow5(x[i], 2 - b))], LAMBDA ds :
    Let([i \in 1..3 |-> [j \in 1..(Len(ds[3]) - Len(ds[i])) |-> 0] \o ds[i]], LAMBDA al :
    Let(ShortestDigits(al[1], al[2], al[3], q[1] % 2 = 0), LAMBDA s :
        NormalizeDigits(neg, s.d, s.drop + (IF b - 2 >= 0 THEN 0 ELSE b - 2))))))

\* the float64 nearest to n / d, of sign neg
FromRatio(neg, n, d, low) ==
    Let(RoundRatio(n, d, low), LAMBDA r :
        IF r.k = "inf" THEN Inf(neg)
        ELSE IF r.k = "zero" THEN Zero(neg)
        ELSE Shortest(neg, r.q, r.b))

\* the float64 nearest to (-1)^neg * ds * 10^e, for decimal digits ds:
\* overflow gives an infinity, underflow a zero.  A decimal of at most 15
\* digits between 1e-307 and 1e308 is the shortest decimal of its float64.
RoundDecimal(neg, ds, e) ==
    Let(NormalizeDigits(neg, ds, e), LAMBDA f :
        LET nd == Len(f.d)
            top == nd + f.e
        IN IF f.d = <<>> THEN f
           ELSE IF top - 1 >= 309 THEN Inf(neg)
           ELSE IF top <= -324 THEN Zero(neg)
           ELSE IF nd <= 15 /\ top - 1 >= -307 /\ top <= 308 THEN f
           ELSE FromRatio(neg,
                          BigMulPow10(BigFromDigits(f.d), IF f.e > 0 THEN f.e ELSE 0),
                          BigMulPow10(<<1>>, IF f.e < 0 THEN -f.e ELSE 0),
                          Log2Pow10(top - 1)))

\* the float64 nearest to (-1)^neg * hs * 2^e, for hexadecimal digits hs
RoundHex(neg, hs, e) ==
    Let(SubSeq(hs, CHOOSE i \in 1..(Len(hs) + 1) :
                       /\ i = Len(hs) + 1 \/ hs[i] # 0
                       /\ \A j \in 1..(i - 1) : hs[j] = 0, Len(hs)), LAMBDA h :
        LET nh == Len(h)
        IN IF h = <<>> THEN Zero(neg)
           ELSE IF 4 * (nh - 1) + e >= 1024 THEN Inf(neg)
           ELSE IF 4 * nh + e <= -1075 THEN Zero(neg)
           ELSE IF nh <= 7 /\ e = 0 THEN NormalizeDigits(neg, DigitsOf(
                        LET v[i \in 0..nh] == IF i = 0 THEN 0 ELSE v[i - 1] * 16 + h[i]
                        IN v[nh]), 0)
           ELSE FromRatio(neg,
                          BigMulPow2(BigFromHex(h), IF e > 0 THEN e ELSE 0),
                          BigMulPow2(<<1>>, IF e < 0 THEN -e ELSE 0),
                          4 * (nh - 1) + e))

\* the value of a sequence of digits to the base 10 or 16, for small values
DigitsValue(ds, base) ==
    LET v[i \in 0..Len(ds)] == IF i = 0 THEN 0 ELSE v[i - 1] * base + ds[i]
    IN v[Len(ds)]

IsMantDigit(c, base) == IsDigitCh(c) \/ (base = 16 /\ Lower(c) \in 97..102)

\* readFloat's digit loop from position i: it stops at i, after the digits
\* ds, f of them behind the point; dig: it saw a digit, us: an underscore
ReadMant(s, i, base) ==
    Let(Least({j \in i..Len(s) :
                  \/ ~(IsMantDigit(s[j], base) \/ s[j] \in {95, 46})
                  \/ s[j] = 46 /\ \E l \in i..(j - 1) : s[l] = 46}
              \cup {Len(s) + 1}), LAMBDA end :
        LET digits(t) == SelectSeq(t, LAMBDA c : IsMantDigit(c, base))
            all == digits(SubSeq(s, i, end - 1))
            dots == {j \in i..(end - 1) : s[j] = 46}
        IN [i |-> end,
            ds |-> [j \in 1..Len(all) |-> HexVal(all[j])],
            f |-> IF dots = {} THEN 0
                  ELSE Len(digits(SubSeq(s, Least(dots) + 1, end - 1))),
            dig |-> all # <<>>,
            us |-> \E j \in i..(end - 1) : s[j] = 95])

\* readFloat's exponent digits from position i, where a digit stands: the
\* value stops growing at 10000
ReadExpDigits(s, i) ==
    Let(Least({j \in i..Len(s) : ~(IsDigitCh(s[j]) \/ s[j] = 95)} \cup {Len(s) + 1}),
        LAMBDA end :
        LET ds == StripZeros(SelectSeq(SubSeq(s, i, end - 1), IsDigitCh))
        IN [i |-> end,
            e |-> DigitsValue([j \in 1..(IF Len(ds) < 5 THEN Len(ds) ELSE 5) |-> ds[j] - 48],
                              10),
            us |-> \E j \in i..(end - 1) : s[j] = 95])

\* readFloat's optional exponent from position i
ReadExp(s, i, base) ==
    LET expChar == IF base = 16 THEN 112 ELSE 101
        j == IF i + 1 <= Len(s) /\ s[i + 1] \in {43, 45} THEN i + 2 ELSE i + 1
        esign == IF i + 1 <= Len(s) /\ s[i + 1] = 45 THEN -1 ELSE 1
    IN IF i <= Len(s) /\ Lower(s[i]) = expChar
       THEN IF j > Len(s) \/ ~IsDigitCh(s[j]) THEN [ok |-> FALSE, i |-> i, e |-> 0, us |-> FALSE]
            ELSE Let(ReadExpDigits(s, j), LAMBDA ds :
                     [ok |-> TRUE, i |-> ds.i, e |-> esign * ds.e, us |-> ds.us])
       ELSE IF base = 16 THEN [ok |-> FALSE, i |-> i, e |-> 0, us |-> FALSE]
       ELSE [ok |-> TRUE, i |-> i, e |-> 0, us |-> FALSE]

\* strconv's underscoreOK: an underscore stands only between two digits, or
\* between a base prefix and a digit
UnderscoreOK(s0) ==
    LET s == IF s0 # <<>> /\ s0[1] \in {43, 45} THEN Tail(s0) ELSE s0
        prefix == Len(s) >= 2 /\ s[1] = 48 /\ Lower(s[2]) \in {98, 111, 120}
        hex == prefix /\ Lower(s[2]) = 120
        start == IF prefix THEN 3 ELSE 1
        dig(i) == IsDigitCh(s[i]) \/ (hex /\ Lower(s[i]) \in 97..102)
    IN \A i \in start..Len(s) :
           s[i] = 95 => /\ IF i = start THEN prefix ELSE dig(i - 1)
                        /\ i < Len(s)
                        /\ dig(i + 1)

\* strconv.ParseFloat(s, 64): [err, f]; err is "none", "syntax" or "range"
ParseFloat(s0) ==
    Let(s0, LAMBDA s :
        LET sp == Special(s)
            signed == s # <<>> /\ s[1] \in {43, 45}
            neg == signed /\ s[1] = 45
            i0 == IF signed THEN 2 ELSE 1
            hex == i0 + 2 <= Len(s) /\ s[i0] = 48 /\ Lower(s[i0 + 1]) = 120
            base == IF hex THEN 16 ELSE 10
            syntax == [err |-> "syntax", f |-> Zero(FALSE)]
        IN IF sp.ok THEN (IF sp.n = Len(s) THEN [err |-> "none", f |-> sp.f] ELSE syntax)
           ELSE IF s = <<>> THEN syntax
           ELSE Let(ReadMant(s, IF hex THEN i0 + 2 ELSE i0, base), LAMBDA mant :
                Let(ReadExp(s, mant.i, base), LAMBDA ex :
                    IF \/ ~mant.dig
                       \/ ~ex.ok
                       \/ (mant.us \/ ex.us) /\ ~UnderscoreOK(SubSeq(s, 1, ex.i - 1))
                       \/ ex.i # Len(s) + 1
                    THEN syntax
                    ELSE Let(IF hex THEN RoundHex(neg, mant.ds, ex.e - 4 * mant.f)
                             ELSE RoundDecimal(neg, mant.ds, ex.e - mant.f), LAMBDA val :
                             [err |-> IF val.k = "inf" THEN "range" ELSE "none",
                              f |-> val]))))

(***************************************************************************)
(* String (primitives.go).                                                 *)
(***************************************************************************)
StringToBoolean(s) == Boolean(ByteLen(s) # 0)

StringToNumber(s) ==
    Let(TrimSpace(s), LAMBDA str :
        IF ByteLen(str) = 0 THEN Number(Fin(0))
        ELSE IF ByteLen(str) > 2 /\ str[1] = 48 /\ str[2] \in {120, 88}
        THEN Let(ParseInt16(SubSeq(str, 3, Len(str))), LAMBDA pi :
                 IF pi.err = "syntax" THEN Number(NaN)
                 ELSE IF pi.err = "range" THEN Number(Inf(pi.neg))
                 ELSE IF pi.h = <<>> THEN Number(Fin(0))
                 ELSE Number(RoundHex(pi.neg, pi.h, 0)))
        ELSE Let(ParseFloat(str), LAMBDA pf :
                 IF pf.err = "syntax" THEN Number(NaN) ELSE Number(pf.f)))

StringToString(s) == String(s)

StringToPrimitive(s) == String(s)

\* String.SetProperty: always nil (no error), no effect
StringSetProperty(s, name, value) == Nil

\* String.HasOwnProperty
StringHasOwnProperty(s, name) == name = TxtLength

\* String.DeleteProperty: nil, or the TypeError for "length"
StringDeleteProperty(s, name) ==
    IF name # TxtLength THEN Nil
    ELSE ErrorMsg("TypeError", TxtCannotDeleteLengthOf \o StringToString(s).s)

(***************************************************************************)
(* NewFromRaw (primitives.go).  A Go panic is the value Panic(kind,        *)
(* message): kind "error" for panic(err), with the text of err, and        *)
(* "runtime" for a run-time error, "string" for panic of a string.         *)
(***************************************************************************)
\* "Single-quoted string literals not implemented"
TxtSingleQuotedNotImplemented ==
    <<83, 105, 110, 103, 108, 101, 45, 113, 117, 111, 116, 101, 100, 32, 115,
      116, 114, 105, 110, 103, 32, 108, 105, 116, 101, 114, 97, 108, 115, 32,
      110, 111, 116, 32, 105, 109, 112, 108, 101, 109, 101, 110, 116, 101,
      100>>
\* "Regular Expression literals not implemented"
TxtRegExpNotImplemented ==
    <<82, 101, 103, 117, 108, 97, 114, 32, 69, 120, 112, 114, 101, 115, 115,
      105, 111, 110, 32, 108, 105, 116, 101, 114, 97, 108, 115, 32, 110, 111,
      116, 32, 105, 109, 112, 108, 101, 109, 101, 110, 116, 101, 100>>
\* "Unrecognized raw literal "
TxtUnrecognizedRawLiteral ==
    <<85, 110, 114, 101, 99, 111, 103, 110, 105, 122, 101, 100, 32, 114, 97,
      119, 32, 108, 105, 116, 101, 114, 97, 108, 32>>
\* "invalid syntax"
TxtInvalidSyntax ==
    <<105, 110, 118, 97, 108, 105, 100, 32, 115, 121, 110, 116, 97, 120>>
\* "index out of range [0] with length 0", the text of Go 1.12 and later
TxtIndexOutOfRange ==
    <<105, 110, 100, 101, 120, 32, 111, 117, 116, 32, 111, 102, 32, 114, 97,
      110, 103, 101, 32, 91, 48, 93, 32, 119, 105, 116, 104, 32, 108, 101,
      110, 103, 116, 104, 32, 48>>

Panic(kind, message) == [t |-> "panic", kind |-> kind, message |-> message]

\* raw[0]: the first byte of the UTF-8 encoding of a non-empty string
FirstByte(s) == EncodeRune(s[1])[1]

\* unicode.IsDigit(rune(b)) for a byte b: in Latin-1 the decimal digits are
\* '0' to '9'
IsDigitByte(b) == b \in 48..57

\* utf8.ValidRune
ValidRune(v) == v \in 0..55295 \/ v \in 57344..1114111

RECURSIVE OctValue(_)
OctValue(s) ==
    IF s = <<>> THEN 0 ELSE OctValue(SubSeq(s, 1, Len(s) - 1)) * 8 + (s[Len(s)] - 48)

RECURSIVE UnquoteFrom(_, _, _)
\* the loop of strconv.Unquote over the text s between the quotes, from
\* position i on, with UnquoteChar(s, '"') inlined: [err, s], s the runes
\* appended so far; a byte of s outside any UTF-8 sequence is read as U+FFFD
UnquoteFrom(s, i, out) ==
    IF i > Len(s) THEN [err |-> FALSE, s |-> out]
    ELSE IF s[i] \in {34, 10} THEN [err |-> TRUE, s |-> <<>>]
    ELSE IF s[i] # 92
    THEN UnquoteFrom(s, i + 1, Append(out, IF s[i] > 1114111 THEN 65533 ELSE s[i]))
    ELSE IF i = Len(s) THEN [err |-> TRUE, s |-> <<>>]
    ELSE LET c == s[i + 1]
             n == IF c = 120 THEN 2 ELSE IF c = 117 THEN 4 ELSE 8
             hex == SubSeq(s, i + 2, i + 1 + n)
             oct == SubSeq(s, i + 1, i + 3)
         IN CASE c = 97 -> UnquoteFrom(s, i + 2, Append(out, 7))
              [] c = 98 -> UnquoteFrom(s, i + 2, Append(out, 8))
              [] c = 102 -> UnquoteFrom(s, i + 2, Append(out, 12))
              [] c = 110 -> UnquoteFrom(s, i + 2, Append(out, 10))
              [] c = 114 -> UnquoteFrom(s, i + 2, Append(out, 13))
              [] c = 116 -> UnquoteFrom(s, i + 2, Append(out, 9))
              [] c = 118 -> UnquoteFrom(s, i + 2, Append(out, 11))
              [] c = 92 -> UnquoteFrom(s, i + 2, Append(out, 92))
              [] c = 34 -> UnquoteFrom(s, i + 2, Append(out, 34))
              [] c \in {120, 117, 85} ->
                    IF i + 1 + n > Len(s) \/ \E j \in 1..n : ~IsHexCh(hex[j])
                    THEN [err |-> TRUE, s |-> <<>>]
                    ELSE IF c = 120
                    THEN UnquoteFrom(s, i + 4, Append(out, LoneByte(HexValue(hex))))
                    ELSE IF Len(StripZeros(hex)) > 6 \/ ~ValidRune(HexValue(StripZeros(hex)))
                    THEN [err |-> TRUE, s |-> <<>>]
                    ELSE UnquoteFrom(s, i + 2 + n, Append(out, HexValue(StripZeros(hex))))
              [] c \in 48..55 ->
                    IF i + 3 > Len(s) \/ \E j \in 2..3 : oct[j] \notin 48..55
                    THEN [err |-> TRUE, s |-> <<>>]
                    ELSE IF OctValue(oct) > 255 THEN [err |-> TRUE, s |-> <<>>]
                    ELSE UnquoteFrom(s, i + 4, Append(out, LoneByte(OctValue(oct))))
              [] OTHER -> [err |-> TRUE, s |-> <<>>]

\* strconv.Unquote(s) for s that begins with a double quote: [err, s]; the
\* bytes the escapes gave are read together with their neighbours
Unquote(s) ==
    IF ByteLen(s) < 2 \/ s[Len(s)] # 34 THEN [err |-> TRUE, s |-> <<>>]
    ELSE Let(UnquoteFrom(SubSeq(s, 2, Len(s) - 1), 1, <<>>), LAMBDA u :
             [err |-> u.err, s |-> FromBytes(Bytes(u.s))])

NewFromRaw(raw) ==
    IF raw = TxtTrue THEN Boolean(TRUE)
    ELSE IF raw = TxtFalse THEN Boolean(FALSE)
    ELSE IF raw = TxtUndefined THEN Undefined
    ELSE IF raw = TxtNull THEN Null
    ELSE IF raw = <<>> THEN Panic("runtime", TxtIndexOutOfRange)
    ELSE IF FirstByte(raw) = 34
    THEN IF Unquote(raw).err THEN Panic("error", TxtInvalidSyntax)
         ELSE String(Unquote(raw).s)
    ELSE IF FirstByte(raw) = 39 THEN Panic("error", TxtSingleQuotedNotImplemented)
    ELSE IF IsDigitByte(FirstByte(raw)) THEN StringToNumber(raw)
    ELSE IF FirstByte(raw) = 47 THEN Panic("error", TxtRegExpNotImplemented)
    ELSE Panic("error", TxtUnrecognizedRawLiteral \o raw)

(***************************************************************************)
(* The object store (spec sections 3, 4.2, 4.3).  An Object is a record of *)
(* its internal prototype (an Object value, or Nil for none), its class,   *)
(* its own keys in insertion order and its property table.  A Property has *)
(* Value, Get and Set (Nil when absent) and three-valued W, E, C.           *)
(***************************************************************************)
Property(value, get, set, w, e, c) ==
    [Value |-> value, Get |-> get, Set |-> set, W |-> w, E |-> e, C |-> c]

\* the property an object literal {key: value} creates
Plain(value) == Property(value, Nil, Nil, "true", "true", "true")

\* the property defineProperty(o, key, {value: value}) creates
Hidden(value) == Property(value, Nil, Nil, "false", "false", "false")

IsEnumerable(pd) == pd.E = "true"

IsAccessorDescriptor(pd) == pd.Get # Nil \/ pd.Set # Nil

IsDataDescriptor(pd) == pd.Value # Nil \/ pd.W # "absent"

\* New(owner, proto) / NewObject(owner, proto): a fresh object without properties
NewObject(proto, class) ==
    [proto |-> proto, class |-> class, keys |-> <<>>, props |-> <<>>]

\* an object holding the given properties, in the given key order
Literal(proto, keys, vals) ==
    [proto |-> proto, class |-> "Object", keys |-> keys,
     props |-> [k \in {keys[i] : i \in 1..Len(keys)} |->
                  vals[CHOOSE i \in 1..Len(keys) : keys[i] = k]]]

OwnPropertyKeys(o) == o.keys

HasOwnProperty(o, key) == key \in DOMAIN o.props

\* GetOwnProperty(key): [ok, pd]
GetOwnProperty(o, key) ==
    IF key \in DOMAIN o.props THEN [ok |-> TRUE, pd |-> o.props[key]]
    ELSE [ok |-> FALSE, pd |-> Property(Nil, Nil, Nil, "absent", "absent", "absent")]

\* Object.Proto()
ObjectProtoOf(o) == o.proto

\* the process-wide prototype roots
ObjectProto == Object(1)
BooleanProto == Object(2)
NumberProto == Object(3)
StringProto == Object(4)
ArrayProto == Object(5)

\* the tags of the registry of native implementations, in its order
builtinObjectNativeImpls ==
    <<"Object.getPrototypeOf", "Object.getOwnPropertyDescriptor",
      "Object.getOwnPropertyNames", "Object.create", "Object.defineProperty",
      "Object.defineProperties", "Object.prototype.toString">>

\* the object bound to "Object", and the native function object bound to
\* the i-th tag of the registry
ObjectBuiltin == Object(6)
NativeFunction(i) == Object(6 + i)

\* the one function of the program text, function(){}
Fn == Object(7 + Len(builtinObjectNativeImpls))

IsCallable(h, v) == IsObject(v) /\ h[v.id].class = "Function"

(***************************************************************************)
(* The operations every Value answers, by variant.                         *)
(***************************************************************************)
Proto(h, v) ==
    CASE v.t = "undefined" -> UndefinedProto
      [] v.t = "null" -> NullProto
      [] v.t = "boolean" -> BooleanProto
      [] v.t = "number" -> NumberProto
      [] v.t = "string" -> StringProto
      [] v.t = "object" -> ObjectProtoOf(h[v.id])

IsPrimitive(v) == v.t \in {"undefined", "null", "boolean", "number", "string"}

ToBoolean(v) ==
    CASE v.t = "undefined" -> UndefinedToBoolean
      [] v.t = "null" -> NullToBoolean
      [] v.t = "boolean" -> BooleanToBoolean(v.b)
      [] v.t = "number" -> NumberToBoolean(v.n)
      [] v.t = "string" -> StringToBoolean(v.s)
      [] v.t = "object" -> Boolean(TRUE)

ToNumber(v) ==
    CASE v.t = "undefined" -> UndefinedToNumber
      [] v.t = "null" -> NullToNumber
      [] v.t = "boolean" -> BooleanToNumber(v.b)
      [] v.t = "number" -> NumberToNumber(v.n)
      [] v.t = "string" -> StringToNumber(v.s)

ToString(v) ==
    CASE v.t = "undefined" -> UndefinedToString
      [] v.t = "null" -> NullToString
      [] v.t = "boolean" -> BooleanToString(v.b)
      [] v.t = "number" -> NumberToString(v.n)
      [] v.t = "string" -> StringToString(v.s)

ToPrimitive(v) ==
    CASE v.t = "undefined" -> UndefinedToPrimitive
      [] v.t = "null" -> NullToPrimitive
      [] v.t = "boolean" -> BooleanToPrimitive(v.b)
      [] v.t = "number" -> NumberToPrimitive(v.n)
      [] v.t = "string" -> StringToPrimitive(v.s)

RECURSIVE ObjectGetProperty(_, _, _, _)
\* Object.GetProperty(name): walks the prototype chain; a getter is a call
\* of function(){}, which yields Undefined; a missing key yields Undefined.
\* fuel bounds the walk by the number of objects.
ObjectGetProperty(h, v, name, fuel) ==
    IF v = Nil \/ fuel = 0 THEN Undefined
    ELSE LET o == h[v.id] IN
         IF name \in DOMAIN o.props
         THEN IF IsAccessorDescriptor(o.props[name]) THEN Undefined
              ELSE o.props[name].Value
         ELSE ObjectGetProperty(h, o.proto, name, fuel - 1)

\* a GetProperty of Strings whose length counts code points
StringGetPropertyCodePoints(h, s, name) ==
    IF name # TxtLength THEN ObjectGetProperty(h, Proto(h, String(s)), name, Len(h))
    ELSE Number(Fin(Len(s)))

\* String.GetProperty: the magic length, else the prototype's property
StringGetProperty(h, s, name) ==
    IF name # TxtLength THEN ObjectGetProperty(h, Proto(h, String(s)), name, Len(h))
    ELSE Number(Fin(UTF16Len(s)))

(***************************************************************************)
(* Property descriptors (spec section 4.3) and DefineOwnProperty (spec     *)
(* section 4.2, ES5.1 8.12.9).  Every object is extensible.                *)
(***************************************************************************)
\* the value of own property name of a descriptor object, Nil when missing
OwnValue(o, name) ==
    IF name \notin DOMAIN o.props THEN Nil
    ELSE IF IsAccessorDescriptor(o.props[name]) THEN Undefined
    ELSE o.props[name].Value

Flag(v) == IF v = Nil THEN "absent" ELSE IF ToBoolean(v).b THEN "true" ELSE "false"

\* ToPropertyDescriptor(obj): [err, pd]; err is Nil or a TypeError
ToPropertyDescriptor(h, o) ==
    LET value == OwnValue(o, TxtValue)
        get == OwnValue(o, TxtGet)
        set == OwnValue(o, TxtSet)
        pd == Property(value, get, set, Flag(OwnValue(o, TxtWritable)),
                       Flag(OwnValue(o, TxtEnumerable)), Flag(OwnValue(o, TxtConfigurable)))
    IN IF \/ get # Nil /\ ~IsCallable(h, get)
          \/ set # Nil /\ ~IsCallable(h, set)
          \/ IsAccessorDescriptor(pd) /\ IsDataDescriptor(pd)
       THEN [err |-> ErrorMsg("TypeError", <<>>), pd |-> pd]
       ELSE [err |-> Nil, pd |-> pd]

\* FromPropertyDescriptor(pd, owner, proto): [err, obj]: a fresh plain
\* object with the four own properties of a data or an accessor property;
\* no property makes it fail
FromPropertyDescriptor(pd, proto) ==
    LET bool(flag) == Plain(Boolean(flag = "true"))
        orUndefined(v) == Plain(IF v = Nil THEN Undefined ELSE v)
    IN [err |-> Nil,
        obj |-> IF IsAccessorDescriptor(pd)
                THEN Literal(proto, <<TxtGet, TxtSet, TxtEnumerable, TxtConfigurable>>,
                             <<orUndefined(pd.Get), orUndefined(pd.Set), bool(pd.E),
                               bool(pd.C)>>)
                ELSE Literal(proto, <<TxtValue, TxtWritable, TxtEnumerable, TxtConfigurable>>,
                             <<orUndefined(pd.Value), bool(pd.W), bool(pd.E), bool(pd.C)>>)]

Or(flag, default) == IF flag = "absent" THEN default ELSE flag

OrValue(v, default) == IF v = Nil THEN default ELSE v

\* the own property a descriptor creates on an object that lacks the key
CreateFrom(pd) ==
    IF IsAccessorDescriptor(pd)
    THEN Property(Nil, OrValue(pd.Get, Undefined), OrValue(pd.Set, Undefined),
                  "absent", Or(pd.E, "false"), Or(pd.C, "false"))
    ELSE Property(OrValue(pd.Value, Undefined), Nil, Nil,
                  Or(pd.W, "false"), Or(pd.E, "false"), Or(pd.C, "false"))

\* the own property cur after descriptor pd is merged into it
MergeInto(cur, pd) ==
    LET base == IF IsAccessorDescriptor(pd) /\ ~IsAccessorDescriptor(cur)
                THEN Property(Nil, Undefined, Undefined, "absent", cur.E, cur.C)
                ELSE IF IsDataDescriptor(pd) /\ IsAccessorDescriptor(cur)
                THEN Property(Undefined, Nil, Nil, "false", cur.E, cur.C)
                ELSE cur
    IN Property(OrValue(pd.Value, base.Value), OrValue(pd.Get, base.Get),
                OrValue(pd.Set, base.Set), Or(pd.W, base.W), Or(pd.E, base.E),
                Or(pd.C, base.C))

\* whether [[DefineOwnProperty]] rejects descriptor pd for own property cur
Rejects(cur, pd) ==
    LET generic == ~IsAccessorDescriptor(pd) /\ ~IsDataDescriptor(pd)
        same == MergeInto(cur, pd) = cur
    IN /\ ~same
       /\ cur.C = "false"
       /\ \/ pd.C = "true"
          \/ pd.E # "absent" /\ pd.E # cur.E
          \/ ~generic /\ IsAccessorDescriptor(pd) # IsAccessorDescriptor(cur)
          \/ /\ IsDataDescriptor(pd) /\ ~IsAccessorDescriptor(cur)
             /\ cur.W = "false"
             /\ (pd.W = "true" \/ (pd.Value # Nil /\ pd.Value # cur.Value))
          \/ /\ IsAccessorDescriptor(pd) /\ IsAccessorDescriptor(cur)
             /\ \/ pd.Get # Nil /\ pd.Get # cur.Get
                \/ pd.Set # Nil /\ pd.Set # cur.Set

WithProperty(o, key, p) ==
    [o EXCEPT !.keys = IF key \in DOMAIN o.props THEN @ ELSE Append(@, key),
              !.props = [k \in DOMAIN o.props \cup {key} |->
                           IF k = key THEN p ELSE o.props[k]]]

\* Object.DefineOwnProperty(key, pd): [err, obj]; err is Nil or a TypeError,
\* obj the object afterwards (unchanged on error)
DefineOwnProperty(o, key, pd) ==
    IF key \notin DOMAIN o.props
    THEN [err |-> Nil, obj |-> WithProperty(o, key, CreateFrom(pd))]
    ELSE IF Rejects(o.props[key], pd)
    THEN [err |-> ErrorMsg("TypeError", <<>>), obj |-> o]
    ELSE [err |-> Nil, obj |-> WithProperty(o, key, MergeInto(o.props[key], pd))]

(***************************************************************************)
(* Arrays (spec section 4.2): length is a non-configurable, non-enumerable,*)
(* writable data property kept above the highest index set.                *)
(***************************************************************************)
NewArray(proto) ==
    [proto |-> proto, class |-> "Array", keys |-> <<TxtLength>>,
     props |-> [k \in {TxtLength} |->
                  Property(Number(Fin(0)), Nil, Nil, "true", "false", "false")]]

\* the array index a key denotes, -1 when it is none
ArrayIndex(key) ==
    Let(StringToNumber(key).n, LAMBDA n :
        IF n.k = "fin" /\ ~n.neg /\ n.e >= 0 /\ NumberToString(n).s = key
        THEN DigitsValue(n.d, 10) * Pow(10, n.e) ELSE -1)

RECURSIVE FindProperty(_, _, _, _)
\* the property named key of o or, when o has none, of the nearest object on
\* its prototype chain that has one: [ok, p].  fuel bounds the walk by the
\* number of objects.
FindProperty(h, o, key, fuel) ==
    IF key \in DOMAIN o.props THEN [ok |-> TRUE, p |-> o.props[key]]
    ELSE IF o.proto = Nil \/ fuel = 0 THEN [ok |-> FALSE, p |-> Plain(Undefined)]
    ELSE FindProperty(h, h[o.proto.id], key, fuel - 1)

\* Object.Set(key, value): [err, obj]; err is Nil or a TypeError, obj the
\* object afterwards.  The property found on o or along its chain decides: an
\* accessor with a setter takes the value and o gets no own property, an
\* accessor without one and a data property that is not writable are a
\* TypeError; otherwise the own property gets the value, or a new own
\* property, writable, enumerable and configurable, is added.
ObjectSet(h, o, key, value) ==
    Let(FindProperty(h, o, key, Len(h)), LAMBDA found :
        IF found.ok /\ IsAccessorDescriptor(found.p)
        THEN IF IsCallable(h, found.p.Set) THEN [err |-> Nil, obj |-> o]
             ELSE [err |-> ErrorMsg("TypeError", <<>>), obj |-> o]
        ELSE IF found.ok /\ found.p.W # "true"
        THEN [err |-> ErrorMsg("TypeError", <<>>), obj |-> o]
        ELSE IF key \in DOMAIN o.props
        THEN [err |-> Nil, obj |-> [o EXCEPT !.props[key].Value = value]]
        ELSE [err |-> Nil, obj |-> WithProperty(o, key, Plain(value))])

\* Array.Set(key, value) for an index key: [err, obj]; Object.Set, and a
\* length raised above the index when the element was stored
ArraySet(h, o, key, value) ==
    Let(ObjectSet(h, o, key, value), LAMBDA set :
        Let(ArrayIndex(key), LAMBDA i :
            LET len == DigitsValue(o.props[TxtLength].Value.n.d, 10)
                       * Pow(10, o.props[TxtLength].Value.n.e)
            IN IF set.err = Nil /\ key \in DOMAIN set.obj.props /\ i >= len
               THEN [set EXCEPT !.obj.props[TxtLength].Value = Number(Fin(i + 1))]
               ELSE set))

(***************************************************************************)
(* The interpreter handle (spec section 6).                                *)
(***************************************************************************)
\* intrp.typeError(msg): the value thrown
typeError(msg) == ErrorMsg("TypeError", msg)

\* intrp.nativeError(errMsg): the value thrown for an *ErrorMsg
nativeError(e) == e

\* intrp.toObject(v, owner): [err, obj]; Undefined and Null fail, a Boolean,
\* Number or String is boxed in a wrapper without own properties, an Object
\* is itself
toObject(h, v) ==
    CASE v.t \in {"undefined", "null"} ->
           [err |-> ErrorMsg("TypeError", <<>>), obj |-> NewObject(Nil, "Object")]
      [] v.t = "boolean" -> [err |-> Nil, obj |-> NewObject(BooleanProto, "Boolean")]
      [] v.t = "number" -> [err |-> Nil, obj |-> NewObject(NumberProto, "Number")]
      [] v.t = "string" -> [err |-> Nil, obj |-> NewObject(StringProto, "String")]
      [] v.t = "object" -> [err |-> Nil, obj |-> h[v.id]]

(***************************************************************************)
(* The Object built-ins (builtin_object.go).  Each takes the heap and the  *)
(* args and yields [val, thrown, heap, sub, applied]: the value returned,  *)
(* the thrown flag, the heap afterwards, whether a sub-call it made        *)
(* returned thrown or an error, and the keys its DefineOwnProperty calls   *)
(* defined, in order.                                                      *)
(***************************************************************************)
Result(val, thrown, h, sub, applied) ==
    [val |-> val, thrown |-> thrown, heap |-> h, sub |-> sub, applied |-> applied]

\* a getPrototypeOf that returns what Proto() returns, the sentinel included
builtinObject_getPrototypeOfRaw(h, args) ==
    IF ~IsObject(args[1])
    THEN Result(typeError(TxtCannotGetPrototypeOf \o ToString(args[1]).s), TRUE, h,
                FALSE, <<>>)
    ELSE Result(Proto(h, args[1]), FALSE, h, FALSE, <<>>)

builtinObject_getPrototypeOf(h, args) ==
    IF ~IsObject(args[1])
    THEN Result(typeError(TxtCannotGetPrototypeOf \o ToString(args[1]).s), TRUE, h,
                FALSE, <<>>)
    ELSE LET proto == Proto(h, args[1])
         IN IF proto = Nil THEN Result(Null, FALSE, h, FALSE, <<>>)
            ELSE Result(proto, FALSE, h, FALSE, <<>>)

builtinObject_getOwnPropertyDescriptor(h, args) ==
    IF ~IsObject(args[1])
    THEN Result(typeError(TxtCannotGetPropertyDescriptorFrom \o ToString(args[1]).s),
                TRUE, h, FALSE, <<>>)
    ELSE Let(GetOwnProperty(h[args[1].id], ToString(args[2]).s), LAMBDA own :
             IF ~own.ok THEN Result(Undefined, FALSE, h, FALSE, <<>>)
             ELSE Let(FromPropertyDescriptor(own.pd, ObjectProto), LAMBDA desc :
                      IF desc.err # Nil
                      THEN Result(nativeError(desc.err), TRUE, Append(h, desc.obj), TRUE,
                                  <<>>)
                      ELSE Result(Object(Len(h) + 1), FALSE, Append(h, desc.obj), FALSE,
                                  <<>>)))

RECURSIVE SetKeys(_, _, _, _)
\* the loop of getOwnPropertyNames from index i (0-based) on: [err, obj];
\* it stops at the first Set that fails
SetKeys(h, arr, ks, i) ==
    IF i >= Len(ks) THEN [err |-> Nil, obj |-> arr]
    ELSE Let(ArraySet(h, arr, NumberToString(Fin(i)).s, String(ks[i + 1])), LAMBDA r :
             IF r.err # Nil THEN r ELSE SetKeys(h, r.obj, ks, i + 1))

builtinObject_getOwnPropertyNames(h, args) ==
    IF ~IsObject(args[1])
    THEN Result(typeError(TxtCannotGetProperyNamesOf \o ToString(args[1]).s), TRUE, h,
                FALSE, <<>>)
    ELSE Let(SetKeys(h, NewArray(ArrayProto), OwnPropertyKeys(h[args[1].id]), 0), LAMBDA r :
             IF r.err # Nil
             THEN Result(nativeError(r.err), TRUE, Append(h, r.obj), TRUE, <<>>)
             ELSE Result(Object(Len(h) + 1), FALSE, Append(h, r.obj), FALSE, <<>>))

\* a defineProperty that ignores what DefineOwnProperty answers
builtinObject_definePropertyUnchecked(h, args) ==
    IF ~IsObject(args[1])
    THEN Result(typeError(TxtCannotDefinePropertyOn \o ToString(args[1]).s), TRUE, h,
                FALSE, <<>>)
    ELSE IF ~IsObject(args[3])
    THEN Result(typeError(TxtDescriptorMustBeObject), TRUE, h, FALSE, <<>>)
    ELSE LET key == ToString(args[2]).s
             conv == ToPropertyDescriptor(h, h[args[3].id])
             def == DefineOwnProperty(h[args[1].id], key, conv.pd)
         IN IF conv.err # Nil THEN Result(nativeError(conv.err), TRUE, h, TRUE, <<>>)
            ELSE Result(args[1], FALSE, [h EXCEPT ![args[1].id] = def.obj], FALSE,
                        <<key>>)

builtinObject_defineProperty(h, args) ==
    IF ~IsObject(args[1])
    THEN Result(typeError(TxtCannotDefinePropertyOn \o ToString(args[1]).s), TRUE, h,
                FALSE, <<>>)
    ELSE IF ~IsObject(args[3])
    THEN Result(typeError(TxtDescriptorMustBeObject), TRUE, h, FALSE, <<>>)
    ELSE LET key == ToString(args[2]).s
             conv == ToPropertyDescriptor(h, h[args[3].id])
             def == DefineOwnProperty(h[args[1].id], key, conv.pd)
         IN IF conv.err # Nil THEN Result(nativeError(conv.err), TRUE, h, TRUE, <<>>)
            ELSE IF def.err # Nil THEN Result(nativeError(def.err), TRUE, h, TRUE, <<>>)
            ELSE Result(args[1], FALSE, [h EXCEPT ![args[1].id] = def.obj], FALSE,
                        <<key>>)

RECURSIVE FirstPassAll(_, _, _, _)
\* a first loop that converts every own property, enumerable or not
FirstPassAll(h, props, i, kpds) ==
    IF i > Len(OwnPropertyKeys(props))
    THEN [val |-> Nil, thrown |-> FALSE, sub |-> FALSE, kpds |-> kpds]
    ELSE LET key == OwnPropertyKeys(props)[i]
             pdpd == GetOwnProperty(props, key)
             conv == ToPropertyDescriptor(h, h[pdpd.pd.Value.id])
         IN IF ~pdpd.ok THEN FirstPassAll(h, props, i + 1, kpds)
            ELSE IF ~IsObject(pdpd.pd.Value)
            THEN [val |-> typeError(TxtDescriptorMustBeObject), thrown |-> TRUE,
                  sub |-> FALSE, kpds |-> kpds]
            ELSE IF conv.err # Nil
            THEN [val |-> nativeError(conv.err), thrown |-> TRUE, sub |-> TRUE,
                  kpds |-> kpds]
            ELSE FirstPassAll(h, props, i + 1,
                              Append(kpds, [key |-> key, pd |-> conv.pd]))

RECURSIVE FirstPass(_, _, _, _)
\* the first loop of defineProperties over keys ks from position i on:
\* [val, thrown, sub, kpds]
FirstPass(h, props, i, kpds) ==
    IF i > Len(OwnPropertyKeys(props))
    THEN [val |-> Nil, thrown |-> FALSE, sub |-> FALSE, kpds |-> kpds]
    ELSE LET key == OwnPropertyKeys(props)[i]
             pdpd == GetOwnProperty(props, key)
             conv == ToPropertyDescriptor(h, h[pdpd.pd.Value.id])
         IN IF ~pdpd.ok \/ ~IsEnumerable(pdpd.pd) THEN FirstPass(h, props, i + 1, kpds)
            ELSE IF ~IsObject(pdpd.pd.Value)
            THEN [val |-> typeError(TxtDescriptorMustBeObject), thrown |-> TRUE,
                  sub |-> FALSE, kpds |-> kpds]
            ELSE IF conv.err # Nil
            THEN [val |-> nativeError(conv.err), thrown |-> TRUE, sub |-> TRUE,
                  kpds |-> kpds]
            ELSE FirstPass(h, props, i + 1,
                           Append(kpds, [key |-> key, pd |-> conv.pd]))

RECURSIVE SecondPassContinue(_, _, _, _)
\* a second loop that goes on after a rejection and reports the first one
SecondPassContinue(o, kpds, i, applied) ==
    IF i > Len(kpds) THEN [err |-> Nil, obj |-> o, applied |-> applied]
    ELSE Let(DefineOwnProperty(o, kpds[i].key, kpds[i].pd), LAMBDA def :
             IF def.err # Nil
             THEN Let(SecondPassContinue(o, kpds, i + 1, applied), LAMBDA rest :
                      [err |-> def.err, obj |-> rest.obj, applied |-> rest.applied])
             ELSE SecondPassContinue(def.obj, kpds, i + 1, Append(applied, kpds[i].key)))

RECURSIVE SecondPass(_, _, _, _)
\* the second loop of defineProperties from position i on: [err, obj, applied]
SecondPass(o, kpds, i, applied) ==
    IF i > Len(kpds) THEN [err |-> Nil, obj |-> o, applied |-> applied]
    ELSE Let(DefineOwnProperty(o, kpds[i].key, kpds[i].pd), LAMBDA def :
             IF def.err # Nil THEN [err |-> def.err, obj |-> o, applied |-> applied]
             ELSE SecondPass(def.obj, kpds, i + 1, Append(applied, kpds[i].key)))

RECURSIVE OnePass(_, _, _, _, _)
\* a single loop that defines each property as soon as its descriptor is
\* converted: [val, thrown, sub, obj, applied]
OnePass(h, props, o, i, applied) ==
    IF i > Len(OwnPropertyKeys(props))
    THEN [val |-> Nil, thrown |-> FALSE, sub |-> FALSE, obj |-> o, applied |-> applied]
    ELSE LET key == OwnPropertyKeys(props)[i]
             pdpd == GetOwnProperty(props, key)
             conv == ToPropertyDescriptor(h, h[pdpd.pd.Value.id])
         IN IF ~pdpd.ok \/ ~IsEnumerable(pdpd.pd) THEN OnePass(h, props, o, i + 1, applied)
            ELSE IF ~IsObject(pdpd.pd.Value)
            THEN [val |-> typeError(TxtDescriptorMustBeObject), thrown |-> TRUE,
                  sub |-> FALSE, obj |-> o, applied |-> applied]
            ELSE IF conv.err # Nil
            THEN [val |-> nativeError(conv.err), thrown |-> TRUE, sub |-> TRUE,
                  obj |-> o, applied |-> applied]
            ELSE Let(DefineOwnProperty(o, key, conv.pd), LAMBDA def :
                     IF def.err # Nil
                     THEN [val |-> nativeError(def.err), thrown |-> TRUE, sub |-> TRUE,
                           obj |-> o, applied |-> applied]
                     ELSE OnePass(h, props, def.obj, i + 1, Append(applied, key)))

\* defineProperties with that single loop
builtinObject_definePropertiesOnePass(h, args) ==
    IF ~IsObject(args[1])
    THEN Result(typeError(TxtCannotDefinePropertyOn \o ToString(args[1]).s), TRUE, h,
                FALSE, <<>>)
    ELSE Let(toObject(h, args[2]), LAMBDA props :
         IF props.err # Nil THEN Result(nativeError(props.err), TRUE, h, TRUE, <<>>)
         ELSE Let(OnePass(h, props.obj, h[args[1].id], 1, <<>>), LAMBDA one :
         LET h2 == [h EXCEPT ![args[1].id] = one.obj]
         IN IF one.thrown THEN Result(one.val, TRUE, h2, one.sub, one.applied)
            ELSE Result(args[1], FALSE, h2, FALSE, one.applied)))

builtinObject_defineProperties(h, args) ==
    IF ~IsObject(args[1])
    THEN Result(typeError(TxtCannotDefinePropertyOn \o ToString(args[1]).s), TRUE, h,
                FALSE, <<>>)
    ELSE Let(toObject(h, args[2]), LAMBDA props :
         IF props.err # Nil THEN Result(nativeError(props.err), TRUE, h, TRUE, <<>>)
         ELSE Let(FirstPass(h, props.obj, 1, <<>>), LAMBDA first :
         IF first.thrown THEN Result(first.val, TRUE, h, first.sub, <<>>)
         ELSE Let(SecondPass(h[args[1].id], first.kpds, 1, <<>>), LAMBDA second :
         LET h2 == [h EXCEPT ![args[1].id] = second.obj]
         IN IF second.err # Nil
            THEN Result(nativeError(second.err), TRUE, h2, TRUE, second.applied)
            ELSE Result(args[1], FALSE, h2, FALSE, second.applied))))

\* a create that takes any value that is no Object for "no prototype"
builtinObject_createUnchecked(h, args) ==
    IF ~IsObject(args[1])
    THEN Result(Object(Len(h) + 1), FALSE, Append(h, NewObject(Nil, "Object")), FALSE,
                <<>>)
    ELSE LET obj == Object(Len(h) + 1)
             h1 == Append(h, NewObject(args[1], "Object"))
         IN IF Len(args) > 1
            THEN Let(builtinObject_defineProperties(h1, <<obj, args[2]>>), LAMBDA sub :
                     Result(obj, FALSE, sub.heap, sub.thrown, sub.applied))
            ELSE Result(obj, FALSE, h1, FALSE, <<>>)

builtinObject_create(h, args) ==
    IF args[1] = Null
    THEN Result(Object(Len(h) + 1), FALSE, Append(h, NewObject(Nil, "Object")), FALSE,
                <<>>)
    ELSE IF ~IsObject(args[1])
    THEN Result(typeError(TxtProtoMayOnlyBe), TRUE, h, FALSE, <<>>)
    ELSE LET obj == Object(Len(h) + 1)
             h1 == Append(h, NewObject(args[1], "Object"))
         IN IF Len(args) > 1
            THEN Let(builtinObject_defineProperties(h1, <<obj, args[2]>>), LAMBDA sub :
                     Result(obj, FALSE, sub.heap, sub.thrown, sub.applied))
            ELSE Result(obj, FALSE, h1, FALSE, <<>>)

\* Object.prototype.toString: the receiver's ToString; this is Nil for the
\* nil interface value, on which the implementation panics
builtinObject_prototype_toString(h, this, args) ==
    IF this = Nil THEN Result(Panic("string", TxtToStringCalledWithNil), FALSE, h, FALSE, <<>>)
    ELSE Result(ToString(this), FALSE, h, FALSE, <<>>)

\* initBuiltinObject on the heap h of the prototype roots: the object bound
\* to "Object" and one native function object for each tag of the registry
initBuiltinObject(h) ==
    Append(h, NewObject(ObjectProto, "Object"))
        \o [i \in 1..Len(builtinObjectNativeImpls) |-> NewObject(ObjectProto, "Function")]

(***************************************************************************)
(* The heap at startup: the prototype roots, the built-ins, and the        *)
(* objects the evaluator built from the program text before the first      *)
(* built-in call: function(){}, descriptor objects, property maps and one  *)
(* empty target.                                                           *)
(***************************************************************************)
One == Number(Fin(1))
Two == Number(Fin(2))
FortyTwo == Number(Fin(42))

\* {value: 1, writable: false, enumerable: false, configurable: false}
DFrozen == Object(15)
\* {value: 2}
DValue == Object(16)
\* {value: 1, enumerable: true}
DEnum == Object(17)
\* {value: 2, get: function(){}}, malformed
DBad == Object(18)
\* {get: function(){}, enumerable: true, configurable: true}
DGetter == Object(19)
\* {a: DEnum, b: DBad}
PGoodBad == Object(20)
\* {a: 42, b: DEnum}
PBadGood == Object(21)
\* {a: DEnum, b: 42 (not enumerable), x: DBad (not enumerable)}
PHidden == Object(22)
\* {a: DEnum, b: DValue}
PGood == Object(23)
\* {}
Target == Object(24)
\* {x: DEnum, a: DValue, b: DEnum}
PRedefine == Object(25)

\* the prototype roots: Object.prototype has no prototype
ProtoRoots ==
    << NewObject(Nil, "Object"),
       NewObject(ObjectProto, "Object"),
       NewObject(ObjectProto, "Object"),
       NewObject(ObjectProto, "Object"),
       NewObject(ObjectProto, "Object") >>

InitHeap ==
    initBuiltinObject(ProtoRoots) \o
    << NewObject(ObjectProto, "Function"),
       Literal(ObjectProto, <<TxtValue, TxtWritable, TxtEnumerable, TxtConfigurable>>,
               <<Plain(One), Plain(Boolean(FALSE)), Plain(Boolean(FALSE)),
                 Plain(Boolean(FALSE))>>),
       Literal(ObjectProto, <<TxtValue>>, <<Plain(Two)>>),
       Literal(ObjectProto, <<TxtValue, TxtEnumerable>>,
               <<Plain(One), Plain(Boolean(TRUE))>>),
       Literal(ObjectProto, <<TxtValue, TxtGet>>, <<Plain(Two), Plain(Fn)>>),
       Literal(ObjectProto, <<TxtGet, TxtEnumerable, TxtConfigurable>>,
               <<Plain(Fn), Plain(Boolean(TRUE)), Plain(Boolean(TRUE))>>),
       Literal(ObjectProto, <<KeyA, KeyB>>, <<Plain(DEnum), Plain(DBad)>>),
       Literal(ObjectProto, <<KeyA, KeyB>>, <<Plain(FortyTwo), Plain(DEnum)>>),
       Literal(ObjectProto, <<KeyA, KeyB, KeyX>>,
               <<Plain(DEnum), Hidden(FortyTwo), Hidden(DBad)>>),
       Literal(ObjectProto, <<KeyA, KeyB>>, <<Plain(DEnum), Plain(DValue)>>),
       NewObject(ObjectProto, "Object"),
       Literal(ObjectProto, <<KeyX, KeyA, KeyB>>,
               <<Plain(DEnum), Plain(DValue), Plain(DEnum)>>) >>

\* the plain objects the calls have made: those of Object.create and the
\* descriptor objects of Object.getOwnPropertyDescriptor
Created(h) == {Object(i) : i \in {j \in Len(InitHeap) + 1..Len(h) : h[j].class = "Object"}}

(***************************************************************************)
(* The arguments the calls are made with.                                  *)
(***************************************************************************)
PrimArgs == {Undefined, Null, Boolean(TRUE), FortyTwo, String(TxtHello)}

TargetArgs(h) == {Target, PGood, FortyTwo} \cup Created(h)

KeyArgs == {String(KeyA), String(KeyX), FortyTwo}

DescArgs == {DFrozen, DValue, DEnum, DBad, DGetter, Boolean(TRUE)}

PropsArgs ==
    {PGoodBad, PBadGood, PHidden, PGood, PRedefine, Undefined, Boolean(TRUE),
     String(TxtHello)}

\* the prototype roots the program reaches as Array.prototype and
\* Object.prototype, and the descriptors it defines their property "0" with
RootArgs == {ArrayProto, ObjectProto}

RootDescArgs == {DFrozen, DValue, DGetter}

ProtoArgs(h) ==
    PrimArgs \cup {ObjectProto, Target, ObjectBuiltin} \cup Created(h)

ThisArgs == {Nil, FortyTwo, String(TxtHello)}

OwnerArgs == {FortyTwo, PHidden, Target}

OwnKeyArgs == {String(KeyA), FortyTwo}

AnyArgs(h) == PrimArgs \cup {Object(i) : i \in 1..Len(h)}

NamesArgs(h) == {String(TxtHello), Target, PGood, PHidden} \cup Created(h)

(***************************************************************************)
(* The world frame of the client (world.js): the resize handler and the    *)
(* timers of the window.  A timer is [pid, left]: the id setTimeout        *)
(* returned and the milliseconds left before it may run.  quiet is the time*)
(* since the latest resize event, counted up to QuietCap; resizes, renders *)
(* and rendersSince count the resize events, the runs of renderHistory and *)
(* the runs since the latest resize event.                                 *)
(***************************************************************************)
\* the delay of setTimeout(CCC.World.renderHistory, 1000)
Delay == 1000

QuietCap == 2 * Delay

\* the state after CCC.World.init: resizePid is 0, no timer is set
InitWorld ==
    [resizePid |-> 0, timers |-> {}, nextPid |-> 1, resizes |-> 0, renders |-> 0,
     quiet |-> 0, rendersSince |-> 0]

\* clearTimeout(pid): without effect when no timer has that id
clearTimeout(w, pid) == [w EXCEPT !.timers = {t \in @ : t.pid # pid}]

\* setTimeout(handler, delay): the id it returns is w.nextPid
setTimeout(w, delay) ==
    [w EXCEPT !.timers = @ \cup {[pid |-> w.nextPid, left |-> delay]},
              !.nextPid = @ + 1]

\* a resize handler that does not clear the timer of the event before
resizeNoClear(w) ==
    [setTimeout(w, Delay) EXCEPT !.resizePid = w.nextPid, !.resizes = @ + 1,
                                 !.quiet = 0, !.rendersSince = 0]

\* CCC.World.resize, the handler of the resize event
resize(w) ==
    [setTimeout(clearTimeout(w, w.resizePid), Delay) EXCEPT
         !.resizePid = w.nextPid, !.resizes = @ + 1, !.quiet = 0, !.rendersSince = 0]

\* CCC.World.renderHistory, as far as the counters go
renderHistory(w) == [w EXCEPT !.renders = @ + 1, !.rendersSince = @ + 1]

\* d milliseconds pass
elapse(w, d) ==
    [w EXCEPT !.quiet = IF @ + d > QuietCap THEN QuietCap ELSE @ + d,
              !.timers = {[t EXCEPT !.left = IF @ > d THEN @ - d ELSE 0] : t \in @}]

(***************************************************************************)
(* The calls of the Object built-ins.                                      *)
(***************************************************************************)
NoCall ==
    [op |-> "none", this |-> Nil, args |-> <<>>, val |-> Nil, thrown |-> FALSE,
     sub |-> FALSE,
     applied |-> <<>>]

Init ==
    /\ heap = InitHeap
    /\ ret = NoCall
    /\ calls = 0
    /\ input = <<>>
    /\ world = InitWorld

\* one call of a built-in on the receiver this: result is its result on the
\* current heap
CallOn(op, this, args, result) ==
    /\ calls < MaxCalls
    /\ \E r \in {result} :
           /\ Len(r.heap) <= MaxObjects
           /\ heap' = r.heap
           /\ ret' = [op |-> op, this |-> this, args |-> args, val |-> r.val,
                      thrown |-> r.thrown, sub |-> r.sub, applied |-> r.applied]
           /\ calls' = calls + 1
           /\ UNCHANGED <<input, world>>

\* a call of a function of Object, whose receiver is the object bound to
\* "Object"; the function does not read it
Call(op, args, result) == CallOn(op, ObjectBuiltin, args, result)

GetPrototypeOf ==
    \E x \in AnyArgs(heap) :
        Call("getPrototypeOf", <<x>>, builtinObject_getPrototypeOf(heap, <<x>>))

GetOwnPropertyDescriptor ==
    \E x \in OwnerArgs, key \in OwnKeyArgs :
        Call("getOwnPropertyDescriptor", <<x, key>>,
             builtinObject_getOwnPropertyDescriptor(heap, <<x, key>>))

PrototypeToString ==
    \E receiver \in ThisArgs :
        CallOn("prototype.toString", receiver, <<>>,
               builtinObject_prototype_toString(heap, receiver, <<>>))

GetOwnPropertyNames ==
    \E x \in NamesArgs(heap) :
        Call("getOwnPropertyNames", <<x>>, builtinObject_getOwnPropertyNames(heap, <<x>>))

Create ==
    \E proto \in ProtoArgs(heap) :
        \/ Call("create", <<proto>>, builtinObject_create(heap, <<proto>>))
        \/ \E props \in PropsArgs :
               Call("create", <<proto, props>>, builtinObject_create(heap, <<proto, props>>))

DefineProperty ==
    \/ \E obj \in TargetArgs(heap), key \in KeyArgs, desc \in DescArgs :
           Call("defineProperty", <<obj, key, desc>>,
                builtinObject_defineProperty(heap, <<obj, key, desc>>))
    \/ \E obj \in RootArgs, desc \in RootDescArgs :
           Call("defineProperty", <<obj, String(KeyZero), desc>>,
                builtinObject_defineProperty(heap, <<obj, String(KeyZero), desc>>))

DefineProperties ==
    \E obj \in TargetArgs(heap), props \in PropsArgs :
        Call("defineProperties", <<obj, props>>,
             builtinObject_defineProperties(heap, <<obj, props>>))

Next ==
    \/ GetPrototypeOf
    \/ GetOwnPropertyDescriptor
    \/ GetOwnPropertyNames
    \/ Create
    \/ DefineProperty
    \/ DefineProperties
    \/ PrototypeToString

Spec == Init /\ [][Next]_vars

(***************************************************************************)
(* The coercions of the primitives, applied to every primitive of the      *)
(* bounded value domain.                                                   *)
(***************************************************************************)
\* ' ', '0', '1', 'x', 'A', '-', '.', 'e', U+00E9, U+10437
Alphabet == {32, 48, 49, 120, 65, 45, 46, 101, 233, 66615}

\* "0x-5", "0X+f", "0x1G", U+00A0 "0x10" U+00A0, "1e999", "-1e999",
\* "0x" and seventeen digits, "1.5e2", "inf", "3e-324", "1e-400", "1_0",
\* "1e1_0", "1__0", "17977e304", "0x20000000000001", "-0x1.8p1",
\* "0x" and sixteen digits and "G", "0x-" and seventeen digits and "G"
NumberTexts ==
    { <<48, 120, 45, 53>>, <<48, 88, 43, 102>>, <<48, 120, 49, 71>>,
      <<160, 48, 120, 49, 48, 160>>, <<49, 101, 57, 57, 57>>,
      <<45, 49, 101, 57, 57, 57>>,
      <<48, 120>> \o [i \in 1..17 |-> 49], <<49, 46, 53, 101, 50>>,
      <<105, 110, 102>>, <<51, 101, 45, 51, 50, 52>>, <<49, 101, 45, 52, 48, 48>>,
      <<49, 95, 48>>, <<49, 101, 49, 95, 48>>, <<49, 95, 95, 48>>,
      <<49, 55, 57, 55, 55, 101, 51, 48, 52>>,
      <<48, 120, 50, 48, 48, 48, 48, 48, 48, 48, 48, 48, 48, 48, 48, 49>>,
      <<45, 48, 120, 49, 46, 56, 112, 49>>,
      <<48, 120>> \o [i \in 1..16 |-> 49] \o <<71>>,
      <<48, 120, 45>> \o [i \in 1..17 |-> 49] \o <<71>> }

Strings ==
    UNION {[1..n -> Alphabet] : n \in 0..MaxStrLen}
        \cup {TxtHello, TxtHelloAcute, TxtAbc, TxtHex1A, TxtLength}
        \cup NumberTexts

Floats ==
    {Normalize(neg, m, e) : neg \in BOOLEAN, m \in 0..MaxMant, e \in -MaxExp..MaxExp}
        \cup {NaN, Inf(FALSE), Inf(TRUE)}

Primitives ==
    {Undefined, Null, Boolean(TRUE), Boolean(FALSE)}
        \cup {Number(f) : f \in Floats} \cup {String(s) : s \in Strings}

\* the receiver under test is drawn by the initial state
InitPrim ==
    /\ heap = InitHeap
    /\ ret = NoCall
    /\ calls = 0
    /\ world = InitWorld
    /\ input \in {<<p>> : p \in Primitives}

\* the outcome of a method of a primitive: it has no access to the heap
Answer(op, val) ==
    /\ ret' = [op |-> op, this |-> Nil, args |-> input, val |-> val, thrown |-> FALSE,
               sub |-> FALSE,
               applied |-> <<>>]
    /\ UNCHANGED <<heap, calls, input, world>>

CallToBoolean == Answer("ToBoolean", ToBoolean(input[1]))

CallToNumber == Answer("ToNumber", ToNumber(input[1]))

CallToString == Answer("ToString", ToString(input[1]))

CallToPrimitive == Answer("ToPrimitive", ToPrimitive(input[1]))

NextPrim ==
    \/ CallToBoolean
    \/ CallToNumber
    \/ CallToString
    \/ CallToPrimitive

SpecPrim == InitPrim /\ [][NextPrim]_vars

(***************************************************************************)
(* The property operations of String values, interleaved with calls of     *)
(* Object.defineProperty on StringProto.                                   *)
(***************************************************************************)
\* strings of 'h' and U+10437, and the strings of the examples
LengthStrings ==
    UNION {[1..n -> {104, 66615}] : n \in 0..MaxStrLen}
        \cup {TxtHello, TxtHelloAcute, TxtAstral, TxtLength}

NameArgs == {TxtLength, KeyX, KeyA}

\* the receiver, the property name and the value to set are drawn by the
\* initial state
InitString ==
    /\ heap = InitHeap
    /\ ret = NoCall
    /\ calls = 0
    /\ world = InitWorld
    /\ input \in {<<String(s), String(name), FortyTwo>> : s \in LengthStrings, name \in NameArgs}

CallStringGetProperty ==
    Answer("String.GetProperty", StringGetProperty(heap, input[1].s, input[2].s))

CallStringSetProperty ==
    Answer("String.SetProperty", StringSetProperty(input[1].s, input[2].s, input[3]))

CallStringHasOwnProperty ==
    Answer("String.HasOwnProperty", Boolean(StringHasOwnProperty(input[1].s, input[2].s)))

CallStringDeleteProperty ==
    Answer("String.DeleteProperty", StringDeleteProperty(input[1].s, input[2].s))

DefineOnStringProto ==
    \E name \in {TxtLength, KeyX}, desc \in {DFrozen, DValue, DGetter} :
        Call("defineProperty", <<StringProto, String(name), desc>>,
             builtinObject_defineProperty(heap, <<StringProto, String(name), desc>>))

NextString ==
    \/ CallStringGetProperty
    \/ CallStringSetProperty
    \/ CallStringHasOwnProperty
    \/ CallStringDeleteProperty
    \/ DefineOnStringProto

SpecString == InitString /\ [][NextString]_vars

(***************************************************************************)
(* NewFromRaw, applied to raw literal text of the bounded domain.          *)
(***************************************************************************)
\* double quote, backslash, single quote, slash, 1, -, a, n, U+00E9
RawAlphabet == {34, 92, 39, 47, 49, 45, 97, 110, 233}

\* the source texts "\'", "a\'b", "\u00e9", "\x41", "\101", "a\nb" (quotes
\* and backslashes included), and 0x1A, 1e3, truex, "\xc3\xa9",
\* "\342\202\254", "\xff", 1_0
RawExamples ==
    { <<34, 92, 39, 34>>, <<34, 97, 92, 39, 98, 34>>,
      <<34, 92, 117, 48, 48, 101, 57, 34>>, <<34, 92, 120, 52, 49, 34>>,
      <<34, 92, 49, 48, 49, 34>>, <<34, 97, 92, 110, 98, 34>>,
      <<48, 120, 49, 65>>, <<49, 101, 51>>, <<116, 114, 117, 101, 120>>,
      <<34, 92, 120, 99, 51, 92, 120, 97, 57, 34>>,
      <<34, 92, 51, 52, 50, 92, 50, 48, 50, 92, 50, 53, 52, 34>>,
      <<34, 92, 120, 102, 102, 34>>, <<49, 95, 48>> }

RawTexts ==
    UNION {[1..n -> RawAlphabet] : n \in 0..MaxStrLen}
        \cup {TxtTrue, TxtFalse, TxtUndefined, TxtNull} \cup RawExamples

InitRaw ==
    /\ heap = InitHeap
    /\ ret = NoCall
    /\ calls = 0
    /\ world = InitWorld
    /\ input \in {<<raw>> : raw \in RawTexts}

CallNewFromRaw == Answer("NewFromRaw", NewFromRaw(input[1]))

NextRaw == CallNewFromRaw

SpecRaw == InitRaw /\ [][NextRaw]_vars

(***************************************************************************)
(* The world frame: resize events, the passing of time and the timers the  *)
(* event loop runs.  The event loop runs a timer some time after it is due;*)
(* it lets no due timer wait for ever, and time does not stop.             *)
(***************************************************************************)
Resize ==
    /\ world.resizes < MaxResizes
    /\ world' = resize(world)
    /\ UNCHANGED <<heap, ret, calls, input>>

Tick ==
    /\ world.quiet < QuietCap
    /\ world' = elapse(world, TickMs)
    /\ UNCHANGED <<heap, ret, calls, input>>

RunTimer ==
    \E t \in world.timers :
        /\ t.left = 0
        /\ world' = renderHistory([world EXCEPT !.timers = @ \ {t}])
        /\ UNCHANGED <<heap, ret, calls, input>>

NextWorld ==
    \/ Resize
    \/ Tick
    \/ RunTimer

SpecWorld == Init /\ [][NextWorld]_vars

SpecWorldFair == SpecWorld /\ WF_vars(Tick) /\ WF_vars(RunTimer)

(***************************************************************************)
(* Properties of the Object built-ins, under Spec.                         *)
(***************************************************************************)
\* a value that is no Object, or an Object ToPropertyDescriptor refuses
Malformed(h, v) == ~IsObject(v) \/ ToPropertyDescriptor(h, h[v.id]).err # Nil

EnumerableKeys(o) == {k \in DOMAIN o.props : IsEnumerable(o.props[k])}

\* props has an enumerable own property whose value is no well-formed
\* descriptor object
HasMalformedEntry(h, props) ==
    /\ IsObject(props)
    /\ \E k \in EnumerableKeys(h[props.id]) : Malformed(h, h[props.id].props[k].Value)

\* a step that is one call of the named built-in
IsCall(op) == ret'.op = op /\ calls' = calls + 1

\* C1: when any enumerable own property of props has a value that is not an
\* Object or that ToPropertyDescriptor rejects, Object.defineProperties(obj,
\* props) returns a thrown TypeError and the property table of obj is exactly
\* what it was before the call, whatever the position of the bad entry.
C1_AllOrNone ==
    [][(IsCall("defineProperties") /\ HasMalformedEntry(heap, ret'.args[2]))
          => /\ ret'.thrown
             /\ ret'.val.name = "TypeError"
             /\ IsObject(ret'.args[1]) =>
                    /\ heap'[ret'.args[1].id].props = heap[ret'.args[1].id].props
                    /\ heap'[ret'.args[1].id].keys = heap[ret'.args[1].id].keys]_vars

\* a defineProperties call on an Object threw where a well-formed enumerable
\* entry of props precedes a malformed one
C1_Witness ==
    /\ ret.op = "defineProperties"
    /\ ret.thrown
    /\ IsObject(ret.args[1])
    /\ IsObject(ret.args[2])
    /\ LET p == heap[ret.args[2].id]
       IN \E i, j \in 1..Len(p.keys) :
              /\ i < j
              /\ IsEnumerable(p.props[p.keys[i]])
              /\ ~Malformed(heap, p.props[p.keys[i]].Value)
              /\ IsEnumerable(p.props[p.keys[j]])
              /\ Malformed(heap, p.props[p.keys[j]].Value)

\* C2: no built-in swallows a thrown flag: whenever a call a built-in makes
\* returns thrown or a non-nil error, the built-in itself returns thrown.
C2_NoSwallow == ret.sub => ret.thrown

\* C3: Object.create(proto) succeeds exactly when proto is Null or an
\* Object; it then returns a fresh object, not present before the call, of
\* which getPrototypeOf yields proto (Null included); for any other argument
\* it returns the thrown TypeError "Object prototype may only be an Object or
\* null" and creates nothing.
C3_Create ==
    [][(IsCall("create") /\ Len(ret'.args) = 1)
          => IF ret'.args[1] = Null \/ IsObject(ret'.args[1])
             THEN /\ ~ret'.thrown
                  /\ IsObject(ret'.val)
                  /\ ret'.val.id \notin DOMAIN heap
                  /\ ret'.val.id \in DOMAIN heap'
                  /\ \A i \in DOMAIN heap : heap'[i] = heap[i]
                  /\ OwnPropertyKeys(heap'[ret'.val.id]) = <<>>
                  /\ builtinObject_getPrototypeOf(heap', <<ret'.val>>).val = ret'.args[1]
                  /\ ~builtinObject_getPrototypeOf(heap', <<ret'.val>>).thrown
             ELSE /\ ret'.thrown
                  /\ ret'.val = ErrorMsg("TypeError", TxtProtoMayOnlyBe)
                  /\ heap' = heap]_vars

\* create(proto) returned a new object whose prototype is the Object given
C3_Witness ==
    /\ ret.op = "create"
    /\ Len(ret.args) = 1
    /\ IsObject(ret.args[1])
    /\ ~ret.thrown
    /\ ret.val.id = Len(heap)
    /\ heap[ret.val.id].proto = ret.args[1]

\* C4: Object.getPrototypeOf(x) returns the thrown TypeError "Cannot get
\* prototype of " followed by ToString(x) for every primitive x ("Cannot get
\* prototype of 42" for 42); for an Object it returns, not thrown, the
\* prototype, or Null when the Object has none; it never returns the "no
\* prototype" sentinel.
C4_GetPrototypeOf ==
    ret.op = "getPrototypeOf" =>
        /\ ret.val # Nil
        /\ IsPrimitive(ret.args[1]) =>
               /\ ret.thrown
               /\ ret.val = ErrorMsg("TypeError",
                                     TxtCannotGetPrototypeOf \o ToString(ret.args[1]).s)
        /\ ret.args[1] = FortyTwo => ret.val.message = TxtCannotGetPrototypeOf \o TxtFortyTwo
        /\ IsObject(ret.args[1]) =>
               /\ ~ret.thrown
               /\ ret.val = IF heap[ret.args[1].id].proto = Nil THEN Null
                            ELSE heap[ret.args[1].id].proto

\* getPrototypeOf answered Null for an object made by Object.create(null)
C4_Witness ==
    /\ ret.op = "getPrototypeOf"
    /\ ret.args[1] \in Created(heap)
    /\ heap[ret.args[1].id].proto = Nil
    /\ ret.val = Null
    /\ ~ret.thrown

\* every field descriptor pd gives is the field of property p
Agrees(p, pd) ==
    /\ pd.Value # Nil => p.Value = pd.Value
    /\ pd.Get # Nil => p.Get = pd.Get
    /\ pd.Set # Nil => p.Set = pd.Set
    /\ pd.W # "absent" => p.W = pd.W
    /\ pd.E # "absent" => p.E = pd.E
    /\ pd.C # "absent" => p.C = pd.C

\* C5: Object.defineProperty(obj, key, descObj) has exactly two outcomes:
\* it returns obj itself, not thrown, and key is then an own property of obj
\* defined as descObj says, its other properties untouched; or it returns a
\* thrown TypeError and the property table of obj is unchanged.  The second
\* happens when obj or descObj is no Object, when descObj is malformed and
\* when DefineOwnProperty rejects the change: on an own property x that is
\* {value: 1, writable: false, configurable: false}, defining {value: 2}
\* returns a TypeError and x still reads 1.
C5_DefineProperty ==
    [][IsCall("defineProperty")
          => LET obj == ret'.args[1]
                 key == ToString(ret'.args[2]).s
                 desc == ret'.args[3]
                 pd == ToPropertyDescriptor(heap, heap[desc.id]).pd
             IN /\ \/ /\ ~ret'.thrown
                      /\ ret'.val = obj
                      /\ IsObject(obj) /\ IsObject(desc)
                      /\ key \in DOMAIN heap'[obj.id].props
                      /\ Agrees(heap'[obj.id].props[key], pd)
                      /\ DOMAIN heap'[obj.id].props = DOMAIN heap[obj.id].props \cup {key}
                      /\ \A k \in DOMAIN heap[obj.id].props \ {key} :
                             heap'[obj.id].props[k] = heap[obj.id].props[k]
                      /\ \A i \in DOMAIN heap \ {obj.id} : heap'[i] = heap[i]
                   \/ /\ ret'.thrown
                      /\ ret'.val.name = "TypeError"
                      /\ heap' = heap
                /\ (~IsObject(obj) \/ ~IsObject(desc)) => ret'.thrown
                /\ (IsObject(obj) /\ IsObject(desc)) =>
                       /\ Malformed(heap, desc) => ret'.thrown
                       /\ DefineOwnProperty(heap[obj.id], key, pd).err # Nil => ret'.thrown
                       /\ ( /\ key \in DOMAIN heap[obj.id].props
                            /\ heap[obj.id].props[key] = Hidden(One)
                            /\ desc = DValue )
                              => /\ ret'.thrown
                                 /\ ObjectGetProperty(heap', obj, key, Len(heap')) = One]_vars

\* defineProperty(obj, x, {value: 2}) threw on an obj whose own x is the
\* frozen 1, and x still reads 1
C5_Witness ==
    /\ ret.op = "defineProperty"
    /\ ret.thrown
    /\ ret.args[3] = DValue
    /\ IsObject(ret.args[1])
    /\ ret.args[2] = String(KeyX)
    /\ KeyX \in DOMAIN heap[ret.args[1].id].props
    /\ heap[ret.args[1].id].props[KeyX] = Hidden(One)
    /\ ObjectGetProperty(heap, ret.args[1], KeyX, Len(heap)) = One

\* the keys a call defined, as a set
Applied(r) == {r.applied[i] : i \in 1..Len(r.applied)}

\* C6: Object.defineProperties(obj, props) reads only the enumerable own
\* properties of props: an own property that is not enumerable defines
\* nothing on obj and cannot cause a TypeError, even when its value is no
\* Object or is malformed.  On success the keys defined on obj are exactly the
\* enumerable own keys of props, and the value returned is obj itself.
C6_EnumerableOnly ==
    [][(IsCall("defineProperties") /\ IsObject(ret'.args[1]) /\ IsObject(ret'.args[2]))
          => LET obj == ret'.args[1]
                 o == heap[obj.id]
                 p == heap[ret'.args[2].id]
             IN /\ Applied(ret') \subseteq EnumerableKeys(p)
                /\ Applied(ret') \subseteq DOMAIN heap'[obj.id].props
                /\ \A k \in DOMAIN heap'[obj.id].props \ Applied(ret') :
                       /\ k \in DOMAIN o.props
                       /\ heap'[obj.id].props[k] = o.props[k]
                /\ ~ret'.thrown => /\ ret'.val = obj
                                   /\ Applied(ret') = EnumerableKeys(p)
                /\ ( /\ ~HasMalformedEntry(heap, ret'.args[2])
                     /\ \A k \in DOMAIN o.props : o.props[k].C = "true" )
                       => ~ret'.thrown]_vars

\* defineProperties succeeded with a props that has own properties that are
\* not enumerable, one holding 42 and one holding a malformed descriptor
C6_Witness ==
    /\ ret.op = "defineProperties"
    /\ ~ret.thrown
    /\ IsObject(ret.args[1])
    /\ ret.args[2] = PHidden
    /\ Applied(ret) = {KeyA}
    /\ \E k \in DOMAIN heap[PHidden.id].props :
           /\ ~IsEnumerable(heap[PHidden.id].props[k])
           /\ ~IsObject(heap[PHidden.id].props[k].Value)
    /\ \E k \in DOMAIN heap[PHidden.id].props :
           /\ ~IsEnumerable(heap[PHidden.id].props[k])
           /\ IsObject(heap[PHidden.id].props[k].Value)
           /\ Malformed(heap, heap[PHidden.id].props[k].Value)

IsPrefix(a, b) == Len(a) <= Len(b) /\ SubSeq(b, 1, Len(a)) = a

\* the decimal numeral of a natural number, as a property key
IndexKey(i) == DigitChars(DigitsOf(i))

\* C7: Object.getOwnPropertyNames(x) on an Object x returns, not thrown, a
\* new Array, a different one on each call, whose element i is the String of
\* the i-th own key of x, for every own key and with no further elements; x
\* is not modified.  The keys are in insertion order: a call of
\* defineProperty or defineProperties appends the keys it adds and moves no
\* key that exists, redefined or not.
C7_OwnPropertyNames ==
    [][/\ \A id \in DOMAIN heap : IsPrefix(heap[id].keys, heap'[id].keys)
       /\ (IsCall("getOwnPropertyNames") /\ IsObject(ret'.args[1]))
             => LET ks == heap[ret'.args[1].id].keys
                IN /\ ~ret'.thrown
                   /\ IsObject(ret'.val)
                   /\ ret'.val.id \notin DOMAIN heap
                   /\ ret'.val.id \in DOMAIN heap'
                   /\ heap'[ret'.val.id].class = "Array"
                   /\ \A id \in DOMAIN heap : heap'[id] = heap[id]
                   /\ \A i \in 0..Len(ks) - 1 :
                          ObjectGetProperty(heap', ret'.val, IndexKey(i), Len(heap'))
                              = String(ks[i + 1])
                   /\ DOMAIN heap'[ret'.val.id].props
                          = {TxtLength} \cup {IndexKey(i) : i \in 0..Len(ks) - 1}
                   /\ ObjectGetProperty(heap', ret'.val, TxtLength, Len(heap'))
                          = Number(Fin(Len(ks)))]_vars

RECURSIVE ChainLength(_, _, _)
\* the number of values on the prototype chain that starts at v, counted
\* for at most fuel steps
ChainLength(h, v, fuel) ==
    IF v = Nil \/ fuel = 0 THEN 0 ELSE 1 + ChainLength(h, Proto(h, v), fuel - 1)

\* C8: after any sequence of Object.create, defineProperty and
\* defineProperties calls no prototype chain has a cycle: following Proto()
\* from any Object reaches "no prototype" within as many steps as there are
\* Objects.  Proto() of Undefined and of Null is "no prototype", which is not
\* the value Null; Proto() of a Boolean, Number or String is BooleanProto,
\* NumberProto or StringProto, whose chain continues to ObjectProto and ends
\* there.
C8_NoCycles ==
    /\ \A id \in DOMAIN heap : ChainLength(heap, Object(id), Len(heap) + 1) <= Len(heap)
    /\ Proto(heap, Undefined) = Nil
    /\ Proto(heap, Null) = Nil
    /\ ChainLength(heap, Undefined, Len(heap) + 1) = 1
    /\ ChainLength(heap, Null, Len(heap) + 1) = 1
    /\ Nil # Null
    /\ ~IsObject(Nil)
    /\ ~IsObject(Null)
    /\ Proto(heap, Boolean(TRUE)) = BooleanProto
    /\ Proto(heap, FortyTwo) = NumberProto
    /\ Proto(heap, String(TxtHello)) = StringProto
    /\ \A v \in {Boolean(TRUE), FortyTwo, String(TxtHello)} :
           /\ Proto(heap, Proto(heap, v)) = ObjectProto
           /\ ChainLength(heap, v, Len(heap) + 1) = 3
    /\ Proto(heap, ObjectProto) = Nil

\* an object created from a created object: a chain of four or more
C8_Witness ==
    \E o \in Created(heap) :
        /\ heap[o.id].proto \in Created(heap)
        /\ ChainLength(heap, o, Len(heap) + 1) >= 4

(***************************************************************************)
(* Properties of the primitives, under SpecPrim and SpecString.            *)
(***************************************************************************)
\* C9: for every primitive p, ToPrimitive(p) is p; ToString, ToNumber and
\* ToBoolean of Undefined are "undefined", NaN, false; of Null "null", 0,
\* false; of Boolean b "true" or "false", 1 or 0, b; ToNumber of Number n is
\* n, its ToBoolean is false exactly when n is 0 or NaN, its ToString is
\* "Infinity", "-Infinity", "NaN" for those; ToString of String s is s and
\* its ToBoolean is true exactly when s is not empty.
C9_Coercions ==
    LET p == ret.args[1]
        v == ret.val
    IN /\ ret.op = "ToPrimitive" => v = p
       /\ ret.op = "ToString" =>
              /\ v.t = "string"
              /\ p = Undefined => v.s = TxtUndefined
              /\ p = Null => v.s = TxtNull
              /\ p.t = "boolean" => v.s = IF p.b THEN TxtTrue ELSE TxtFalse
              /\ p = Number(Inf(FALSE)) => v.s = TxtInfinity
              /\ p = Number(Inf(TRUE)) => v.s = TxtNegInfinity
              /\ p = Number(NaN) => v.s = TxtNaN
              /\ p.t = "string" => v = p
       /\ ret.op = "ToNumber" =>
              /\ v.t = "number"
              /\ p = Undefined => v.n = NaN
              /\ p = Null => v.n = Fin(0)
              /\ p.t = "boolean" => v.n = IF p.b THEN Fin(1) ELSE Fin(0)
              /\ p.t = "number" => v = p
       /\ ret.op = "ToBoolean" =>
              /\ v.t = "boolean"
              /\ p \in {Undefined, Null} => v.b = FALSE
              /\ p.t = "boolean" => v = p
              /\ p.t = "number" =>
                     v.b = ~(p.n.k = "nan" \/ (p.n.k = "fin" /\ p.n.d = <<>>))
              /\ p.t = "string" => v.b = (Len(p.s) > 0)

\* ToBoolean was applied to NaN and answered false
C9_Witness ==
    /\ ret.op = "ToBoolean"
    /\ ret.args = <<Number(NaN)>>
    /\ ret.val = Boolean(FALSE)

\* the UTF-16 code units of a string of code points
CodeUnits(s) == Len(s) + Cardinality({i \in 1..Len(s) : s[i] > 65535})

\* C10: for every String s, GetProperty("length") is the Number of UTF-16
\* code units of s (5 for "h\u00e9llo", 2 for U+10437) and
\* HasOwnProperty("length") is true; SetProperty of any name returns no
\* error and changes nothing; DeleteProperty("length") returns a TypeError
\* and DeleteProperty of any other name returns no error.  All of this holds
\* whatever StringProto has been given, an own "length" included.
C10_StringLength ==
    /\ \A s \in LengthStrings :
           /\ StringGetProperty(heap, s, TxtLength) = Number(Fin(CodeUnits(s)))
           /\ StringHasOwnProperty(s, TxtLength)
    /\ StringGetProperty(heap, TxtHelloAcute, TxtLength) = Number(Fin(5))
    /\ StringGetProperty(heap, TxtAstral, TxtLength) = Number(Fin(2))
    /\ ret.op = "String.SetProperty" => ret.val = Nil
    /\ ret.op = "String.DeleteProperty" =>
           IF ret.args[2].s = TxtLength
           THEN ret.val # Nil /\ ret.val.name = "TypeError"
           ELSE ret.val = Nil
    /\ (ret.op = "String.GetProperty" /\ ret.args[2].s = TxtLength) =>
           ret.val = Number(Fin(CodeUnits(ret.args[1].s)))
    /\ (ret.op = "String.HasOwnProperty" /\ ret.args[2].s = TxtLength) =>
           ret.val = Boolean(TRUE)

\* the length of U+10437 was read as 2 while StringProto had an own "length"
C10_Witness ==
    /\ ret.op = "String.GetProperty"
    /\ ret.args[1] = String(TxtAstral)
    /\ ret.args[2] = String(TxtLength)
    /\ ret.val = Number(Fin(2))
    /\ TxtLength \in DOMAIN heap[StringProto.id].props

\* the white space of ASCII
IsAsciiSpace(c) == c \in 9..13 \/ c = 32

RECURSIVE TrimAsciiLeft(_)
TrimAsciiLeft(s) ==
    IF s # <<>> /\ IsAsciiSpace(Head(s)) THEN TrimAsciiLeft(Tail(s)) ELSE s

RECURSIVE TrimAsciiRight(_)
TrimAsciiRight(s) ==
    IF s # <<>> /\ IsAsciiSpace(s[Len(s)])
    THEN TrimAsciiRight(SubSeq(s, 1, Len(s) - 1)) ELSE s

AllHex(s) == s # <<>> /\ \A i \in 1..Len(s) : IsHexCh(s[i])

\* C11: String.ToNumber trims surrounding ASCII white space and then returns
\* 0 for the empty string; for a string that begins with "0x" or "0X" the
\* value of the hexadecimal digits that follow (" 0x1A " gives 26), NaN when
\* a sign or a character that is no hexadecimal digit follows the prefix,
\* +Infinity when the digits are out of range; otherwise the decimal
\* floating-point value, NaN when the string is not parseable ("abc") and
\* +Infinity or -Infinity when the magnitude is out of range.
C11_ToNumber ==
    (ret.op = "ToNumber" /\ ret.args[1].t = "string") =>
        LET str == TrimAsciiRight(TrimAsciiLeft(ret.args[1].s))
            rest == SubSeq(str, 3, Len(str))
            pf == ParseFloat(str)
            v == ret.val.n
        IN /\ ret.val.t = "number"
           /\ IF str = <<>> THEN v = Fin(0)
              ELSE IF Len(str) > 2 /\ str[1] = 48 /\ str[2] \in {120, 88}
              THEN IF ~AllHex(rest) THEN v = NaN
                   ELSE /\ Len(StripZeros(rest)) <= 7 => v = Fin(HexValue(rest))
                        /\ Len(StripZeros(rest)) > 16 => v = Inf(FALSE)
              ELSE IF pf.err = "syntax" THEN v = NaN
              ELSE /\ v = pf.f
                   /\ pf.err = "range" => v.k = "inf"
           /\ ret.args[1].s = TxtHex1A => v = Fin(26)
           /\ ret.args[1].s = TxtAbc => v = NaN

RECURSIVE LiteralFrom(_, _)
\* the text s between the quotes is, from position i on, the body of a
\* double-quoted string literal of the language: no bare quote or line
\* end, and after a backslash a character, which is no line end and no digit
\* but 0, x with two and u with four hexadecimal digits
LiteralFrom(s, i) ==
    IF i > Len(s) THEN TRUE
    ELSE IF s[i] \in {34, 10, 13} THEN FALSE
    ELSE IF s[i] # 92 THEN LiteralFrom(s, i + 1)
    ELSE IF i = Len(s) THEN FALSE
    ELSE IF s[i + 1] \in {10, 13} \cup 49..57 THEN FALSE
    ELSE IF s[i + 1] = 48
    THEN (i + 2 > Len(s) \/ s[i + 2] \notin 48..57) /\ LiteralFrom(s, i + 2)
    ELSE IF s[i + 1] = 120
    THEN i + 3 <= Len(s) /\ AllHex(SubSeq(s, i + 2, i + 3)) /\ LiteralFrom(s, i + 4)
    ELSE IF s[i + 1] = 117
    THEN i + 5 <= Len(s) /\ AllHex(SubSeq(s, i + 2, i + 5)) /\ LiteralFrom(s, i + 6)
    ELSE LiteralFrom(s, i + 2)

IsStringLiteral(raw) ==
    /\ Len(raw) >= 2
    /\ raw[1] = 34
    /\ raw[Len(raw)] = 34
    /\ LiteralFrom(SubSeq(raw, 2, Len(raw) - 1), 1)

\* C12: NewFromRaw(raw) maps literal source text to a primitive, never an
\* Object: "true", "false", "undefined" and "null" give Boolean(true),
\* Boolean(false), Undefined and Null; a double-quoted string literal gives
\* the decoded String; text with a leading digit gives String(raw).ToNumber();
\* text with a leading single quote or slash fails hard; every other text
\* (a leading minus sign or letter included) is the fatal error "Unrecognized
\* raw literal".
C12_NewFromRaw ==
    ret.op = "NewFromRaw" =>
        LET raw == ret.args[1]
            v == ret.val
            keyword == raw \in {TxtTrue, TxtFalse, TxtUndefined, TxtNull}
        IN /\ v.t # "object"
           /\ raw = TxtTrue => v = Boolean(TRUE)
           /\ raw = TxtFalse => v = Boolean(FALSE)
           /\ raw = TxtUndefined => v = Undefined
           /\ raw = TxtNull => v = Null
           /\ IsStringLiteral(raw) => v.t = "string"
           /\ (raw # <<>> /\ ~keyword) =>
                  /\ raw[1] \in 48..57 => v = StringToNumber(raw)
                  /\ raw[1] \in {39, 47} => v.t = "panic"
                  /\ raw[1] \notin {34, 39, 47} \cup 48..57 =>
                         v = Panic("error", TxtUnrecognizedRawLiteral \o raw)

\* the enumerable own keys of an object, in own-key order
EnumerableKeySeq(o) == SelectSeq(o.keys, LAMBDA k : IsEnumerable(o.props[k]))

\* the descriptor that the value of own property k of props converts to
EntryDescriptor(h, props, k) == ToPropertyDescriptor(h, h[props.props[k].Value.id]).pd

\* C13: when every enumerable entry of props converts to a descriptor but
\* DefineOwnProperty rejects the entry of some key k, Object.defineProperties
\* returns thrown and leaves obj partially updated: the entries whose keys
\* precede k in the own-key order of props are applied and stay applied, the
\* entry of k and all later entries are not applied.  It returns thrown only
\* then.
C13_PartialUpdate ==
    [][(/\ IsCall("defineProperties")
        /\ IsObject(ret'.args[1]) /\ IsObject(ret'.args[2])
        /\ ~HasMalformedEntry(heap, ret'.args[2]))
          => LET id == ret'.args[1].id
                 p == heap[ret'.args[2].id]
                 ks == EnumerableKeySeq(p)
                 n == Len(ret'.applied)
             IN /\ ret'.thrown <=> ret'.applied # ks
                /\ ret'.thrown =>
                       /\ ret'.val.name = "TypeError"
                       /\ n < Len(ks)
                       /\ ret'.applied = SubSeq(ks, 1, n)
                       /\ DefineOwnProperty(heap'[id], ks[n + 1],
                                            EntryDescriptor(heap, p, ks[n + 1])).err # Nil
                       /\ \A i \in 1..n :
                              /\ ks[i] \in DOMAIN heap'[id].props
                              /\ Agrees(heap'[id].props[ks[i]],
                                        EntryDescriptor(heap, p, ks[i]))
                       /\ \A i \in n + 1..Len(ks) :
                              IF ks[i] \in DOMAIN heap[id].props
                              THEN /\ ks[i] \in DOMAIN heap'[id].props
                                   /\ heap'[id].props[ks[i]] = heap[id].props[ks[i]]
                              ELSE ks[i] \notin DOMAIN heap'[id].props]_vars

\* defineProperties(obj, {x, a, b}) threw at a, which is the frozen 1 on obj:
\* x is defined, a still reads 1 and b is not defined
C13_Witness ==
    /\ ret.op = "defineProperties"
    /\ ret.thrown
    /\ IsObject(ret.args[1])
    /\ ret.args[2] = PRedefine
    /\ ret.applied = <<KeyX>>
    /\ LET o == heap[ret.args[1].id]
       IN /\ KeyX \in DOMAIN o.props
          /\ o.props[KeyX].Value = One
          /\ o.props[KeyA] = Hidden(One)
          /\ KeyB \notin DOMAIN o.props

(***************************************************************************)
(* Properties of the world frame, under SpecWorldFair.                     *)
(***************************************************************************)
\* C14: resize handling is debounced: every resize event cancels the timer
\* the event before it set and sets a new one, so at any time at most one
\* renderHistory timer is pending, and it is the one resizePid names;
\* renderHistory never runs while fewer than 1000 ms have passed since the
\* latest resize event; and a burst of resize events followed by 1000 ms of
\* quiet leads to exactly one run of renderHistory.
C14_Debounce ==
    /\ [](/\ Cardinality(world.timers) <= 1
          /\ \A t \in world.timers : t.pid = world.resizePid
          /\ world.rendersSince <= 1
          /\ world.rendersSince = 1 => world.quiet >= Delay
          /\ world.renders <= world.resizes)
    /\ [][world'.renders > world.renders => world.quiet >= Delay]_vars
    /\ (world.resizes > 0 /\ world.quiet >= Delay)
           ~> (world.rendersSince = 1 /\ world.timers = {})

\* two resize events came within 1000 ms and renderHistory has run once
C14_Witness ==
    /\ world.resizes = 2
    /\ world.renders = 1
    /\ world.rendersSince = 1
    /\ world.timers = {}
    /\ world.resizePid = 2

====
